---- MODULE Spec2Model ----
(***************************************************************************)
(* Model of the password vault: the vault item routes (/api/vault,         *)
(* /api/vault/:id), the master-password routes (/api/master-password),     *)
(* the client-side field cipher, the EncryptionProvider context and the    *)
(* MasterPasswordPrompt / VaultDashboard flow.                             *)
(*                                                                         *)
(* String values are modelled as tuples so that values of different kinds  *)
(* can be compared: the empty string is <<>>, a ciphertext is              *)
(* <<"ct", key, plaintext, nonce>>, a derived key is <<"key", secret,      *)
(* email>>, a bcrypt hash is <<"$2", salt, digest>>, a master password is  *)
(* the tuple of its characters.                                            *)
(***************************************************************************)
EXTENDS Integers, Sequences, FiniteSets, TLC

VARIABLES
    items,          \* VaultItem collection (set of documents)
    nextId,         \* next ObjectId the store assigns
    now,            \* server clock (timestamps: true)
    vresp,          \* response of the last vault route handler that ran
    users,          \* User collection: user id -> [email, masterPasswordHash]
    reqs,           \* /api/master-password requests in flight, by slot
    lastSecret,     \* history: user id -> the secret last hashed into the verifier
    encryptionKey,  \* EncryptionProvider: the session key, or null
    isLocked,       \* EncryptionProvider: isLocked
    showPrompt,     \* VaultDashboard: showMasterPasswordPrompt
    isFirstTime,    \* MasterPasswordPrompt: isFirstTime
    isValidating,   \* MasterPasswordPrompt: isValidating
    error,          \* MasterPasswordPrompt: the error shown
    page,           \* the browser: on the vault page, signing out, or sent to login
    session,        \* the user the browser's session cookie stands for
    vaultItems,     \* VaultDashboard: vaultItems, the documents last fetched
    listOut,        \* VaultDashboard: a fetchVaultItems is under way
    showExportImport, \* VaultDashboard: the export / import modal is open
    importJob,      \* handleImportItems under way: the key it read, the items left
    vaultOp,        \* the last operation of the browser that asked for the key
    cached,         \* lib/mongodb: the connection cache { conn, promise }
    loop            \* the server's event loop: connection attempts, calls of connectDB

ctxVars == <<encryptionKey, isLocked>>
uiVars == <<showPrompt, isFirstTime, isValidating, error, page, session>>
dashVars == <<vaultItems, listOut, showExportImport, importJob, vaultOp>>
clientVars == <<ctxVars, uiVars, dashVars>>
dbVars == <<cached, loop>>
appVars == <<items, nextId, now, vresp, users, reqs, lastSecret, clientVars>>
vars == <<appVars, dbVars>>

----------------------------------------------------------------------------
(* Bounds *)

MaxItems == 2       \* documents ever created
MaxTime == 1        \* clock ticks
NumSlots == 2       \* concurrent master-password requests
MaxImport == 2      \* items in an imported bundle

----------------------------------------------------------------------------
(* Values *)

Empty == <<>>                       \* the empty string ''
Undefined == <<"undefined">>        \* a member missing from a JSON body
Null == <<"null">>                  \* null
Falsy(v) == v = Empty \/ v = Undefined \/ v = Null

Owners == {"alice", "bob"}          \* user ids that have an account
NoSession == "anon"                 \* auth() returned no session / no user
Callers == Owners \cup {NoSession}

EmailOf(u) == <<"mail", u>>

Ids == 1..(MaxItems + 1)
BadId == 0                          \* a string that is not an ObjectId

----------------------------------------------------------------------------
(* Client-side cryptography: src/lib/crypto.ts *)

\* Master passwords a user may type (tuples of characters).
Secret1 == <<"C","o","r","r","e","c","t","1","!">>
Secret2 == <<"H","o","r","s","e","#","9","9","x">>
Secrets == {Secret1, Secret2}
WeakSecret == <<"p", "a", "s", "s", "w", "o", "r", "d">>    \* 8 characters, one class
ShortSecret == <<"A", "b", "1", "!">>                       \* fewer than 8 characters

\* deriveKey: PBKDF2(masterPassword, SHA256(email)); a deterministic function
\* of both arguments, taken to be collision free.
deriveKey(masterPassword, email) == <<"key", masterPassword, email>>

Nonces == {1, 2}                    \* CryptoJS draws a random salt per call
Plaintexts == {<<"pt", "bank">>, <<"pt", "mail">>}

\* Faulty variant: the empty string is encrypted like any other.
encryptAlways(plaintext, key, nonce) == <<"ct", key, plaintext, nonce>>

\* encrypt: '' for a falsy plaintext, else the AES ciphertext.
encrypt(plaintext, key, nonce) ==
    IF Falsy(plaintext) THEN Empty ELSE <<"ct", key, plaintext, nonce>>

IsCiphertext(v) == Len(v) = 4 /\ v[1] = "ct"

DecryptError == <<"error", "Failed to decrypt data - wrong master password?">>

\* CryptoJS.AES.decrypt checks nothing: the ciphertext carries no
\* authentication tag, and under another key the bytes it returns are
\* arbitrary. What bytes.toString(CryptoJS.enc.Utf8) makes of such bytes
\* depends on them: it throws on malformed UTF-8, or returns '' or some text.
Utf8Outcomes == {"malformed", "empty", "text"}
Garbage == <<"pt", "garbage">>
Malformed == <<"error", "Malformed UTF-8 data">>

\* bytes.toString(CryptoJS.enc.Utf8) of CryptoJS.AES.decrypt(ciphertext, key)
Utf8OfDecrypted(ciphertext, key, luck) ==
    IF IsCiphertext(ciphertext) /\ ciphertext[2] = key THEN ciphertext[3]
    ELSE IF luck = "text" THEN Garbage
    ELSE IF luck = "empty" THEN Empty
    ELSE Malformed

\* decrypt: '' for a falsy ciphertext; it throws when the decoding throws or
\* gives '', and returns the decoded text otherwise.
decrypt(ciphertext, key, luck) ==
    IF Falsy(ciphertext) THEN Empty
    ELSE LET plaintext == Utf8OfDecrypted(ciphertext, key, luck) IN
         IF plaintext = Malformed \/ Falsy(plaintext) THEN DecryptError
         ELSE plaintext

\* Faulty variant: the url is sent as typed.
encryptAllButUrl(item, key, rnd) ==
    [title |-> encrypt(item.title, key, rnd.title),
     username |-> IF ~Falsy(item.username) THEN encrypt(item.username, key, rnd.username)
                  ELSE Empty,
     password |-> IF ~Falsy(item.password) THEN encrypt(item.password, key, rnd.password)
                  ELSE Empty,
     url |-> IF ~Falsy(item.url) THEN item.url ELSE Empty,
     notes |-> IF ~Falsy(item.notes) THEN encrypt(item.notes, key, rnd.notes) ELSE Empty]

\* encryptVaultItem: the field cipher over the attribute set, a fresh nonce
\* per field.
encryptVaultItem(item, key, rnd) ==
    [title |-> encrypt(item.title, key, rnd.title),
     username |-> IF ~Falsy(item.username) THEN encrypt(item.username, key, rnd.username)
                  ELSE Empty,
     password |-> IF ~Falsy(item.password) THEN encrypt(item.password, key, rnd.password)
                  ELSE Empty,
     url |-> IF ~Falsy(item.url) THEN encrypt(item.url, key, rnd.url) ELSE Empty,
     notes |-> IF ~Falsy(item.notes) THEN encrypt(item.notes, key, rnd.notes) ELSE Empty]

AttributeNames == {"title", "username", "password", "url", "notes"}

\* Faulty variant: only the title is decrypted.
decryptTitleOnly(item, key, luck) ==
    IF decrypt(item.title, key, luck.title) = DecryptError THEN DecryptError
    ELSE [title |-> decrypt(item.title, key, luck.title)] @@ item

\* decryptVaultItem: the id, owner and timestamps pass through; it throws as a
\* whole when one field does not decrypt. luck gives, field by field, what
\* the decoding makes of bytes decrypted under another key.
decryptVaultItem(item, key, luck) ==
    LET plain == [title |-> decrypt(item.title, key, luck.title),
                  username |-> IF ~Falsy(item.username)
                               THEN decrypt(item.username, key, luck.username)
                               ELSE Empty,
                  password |-> IF ~Falsy(item.password)
                               THEN decrypt(item.password, key, luck.password)
                               ELSE Empty,
                  url |-> IF ~Falsy(item.url) THEN decrypt(item.url, key, luck.url)
                          ELSE Empty,
                  notes |-> IF ~Falsy(item.notes) THEN decrypt(item.notes, key, luck.notes)
                            ELSE Empty]
    IN  IF \E f \in AttributeNames : plain[f] = DecryptError
        THEN DecryptError
        ELSE [_id |-> item._id, userId |-> item.userId, createdAt |-> item.createdAt,
              updatedAt |-> item.updatedAt] @@ plain

\* The decodings the calls are driven with: malformed or a text, for the
\* title and for the other fields, or '' throughout. Under Strict nothing
\* decrypts but under its key.
Lucks ==
    {[f \in AttributeNames |-> IF f = "title" THEN a ELSE b] : a, b \in {"malformed", "text"}}
        \cup {[f \in AttributeNames |-> "empty"]}
Strict == [f \in AttributeNames |-> "malformed"]

----------------------------------------------------------------------------
(* Vault item store: /api/vault and /api/vault/:id *)

VaultKeys == {deriveKey(s, EmailOf(u)) : s \in Secrets, u \in Owners}

\* Field values a request body may carry: the server takes them as sent.
CtA == encrypt(<<"pt", "bank">>, deriveKey(Secret1, EmailOf("alice")), 1)
CtB == encrypt(<<"pt", "mail">>, deriveKey(Secret1, EmailOf("bob")), 2)

Bodies ==
    { [title |-> t, username |-> f, password |-> CtB, url |-> Undefined, notes |-> Empty] :
        t \in {Undefined, Empty, CtA, CtB}, f \in {Undefined, CtA} }

\* Faulty variant: the lookup trusts the id alone.
ByIdOnly(id, userId) == {it \in items : it._id = id}

\* { _id: params.id, userId: session.user.id }
ByIdAndUser(id, userId) == {it \in items : it._id = id /\ it.userId = userId}

\* The stored attribute set of a create / update: `x || ''` for the optional ones.
OrEmpty(v) == IF Falsy(v) THEN Empty ELSE v

Attributes(body) ==
    [title |-> body.title,
     username |-> OrEmpty(body.username),
     password |-> OrEmpty(body.password),
     url |-> OrEmpty(body.url),
     notes |-> OrEmpty(body.notes)]

NewDocument(id, userId, body, time) ==
    [_id |-> id, userId |-> userId, createdAt |-> time, updatedAt |-> time]
        @@ Attributes(body)

\* Faulty variant: an attribute the request omits keeps its stored value.
Patched(it, body, time) ==
    [_id |-> it._id, userId |-> it.userId, createdAt |-> it.createdAt, updatedAt |-> time,
     title |-> body.title,
     username |-> IF Falsy(body.username) THEN it.username ELSE body.username,
     password |-> IF Falsy(body.password) THEN it.password ELSE body.password,
     url |-> IF Falsy(body.url) THEN it.url ELSE body.url,
     notes |-> IF Falsy(body.notes) THEN it.notes ELSE body.notes]

\* findOneAndUpdate({ _id, userId }, { title, username: username || '', ... },
\* { new: true }) on a schema with timestamps
Replaced(it, body, time) ==
    [_id |-> it._id, userId |-> it.userId, createdAt |-> it.createdAt, updatedAt |-> time]
        @@ Attributes(body)

\* A request without a JSON body (GET, DELETE) is written with this one, which
\* the handler never reads.
Body0 == [title |-> CtA, username |-> Undefined, password |-> CtB,
          url |-> Undefined, notes |-> Empty]

NoResp ==
    [op |-> "none", user |-> NoSession, id |-> BadId, body |-> Body0, titleOk |-> FALSE,
     dbOk |-> FALSE, status |-> 0, items |-> <<>>]

\* The answer of a route handler to request q, kept with what was asked.
Respond(op, q, status, its) ==
    vresp' = [op |-> op, user |-> q.user, id |-> q.id, body |-> q.body,
              titleOk |-> ~Falsy(q.body.title),
              dbOk |-> q.dbOk, status |-> status, items |-> its]

\* Faulty variant: the oldest document comes first.
SortedAsc(S) ==
    { s \in [1..Cardinality(S) -> S] :
        /\ \A i, j \in 1..Cardinality(S) : i # j => s[i] # s[j]
        /\ \A i, j \in 1..Cardinality(S) : i < j => s[i].createdAt <= s[j].createdAt }

\* All orderings of a finite set of documents by createdAt descending
\* (documents created in the same instant come in any order).
SortedDesc(S) ==
    { s \in [1..Cardinality(S) -> S] :
        /\ \A i, j \in 1..Cardinality(S) : i # j => s[i] # s[j]
        /\ \A i, j \in 1..Cardinality(S) : i < j => s[i].createdAt >= s[j].createdAt }

gateVars == <<users, reqs, lastSecret>>

\* VaultItem.find({ userId: session.user.id })
OwnedBy(userId) == {it \in items : it.userId = userId}

\* The handler of GET /api/vault: what it answers (it writes nothing).
ListItems(q) ==
    IF q.user = NoSession THEN Respond("LIST", q, 401, <<>>)
    ELSE IF ~q.dbOk THEN Respond("LIST", q, 500, <<>>)
    ELSE \E s \in SortedDesc(OwnedBy(q.user)) : Respond("LIST", q, 200, s)

\* GET /api/vault
VaultList(q) ==
    /\ UNCHANGED <<dbVars, items, nextId, now, gateVars, clientVars>>
    /\ ListItems(q)

\* Faulty variant: only a missing title is refused, an empty one is stored.
TitleUndefinedOnly(body) == body.title = Undefined

\* if (!title)
TitleMissing(body) == Falsy(body.title)

\* The handler of POST /api/vault: what it stores and answers.
CreateItem(q) ==
    IF q.user = NoSession
    THEN Respond("POST", q, 401, <<>>) /\ UNCHANGED <<items, nextId>>
    ELSE IF TitleMissing(q.body)
    THEN Respond("POST", q, 400, <<>>) /\ UNCHANGED <<items, nextId>>
    ELSE IF ~q.dbOk
    THEN Respond("POST", q, 500, <<>>) /\ UNCHANGED <<items, nextId>>
    ELSE /\ nextId <= MaxItems
         /\ LET doc == NewDocument(nextId, q.user, q.body, now) IN
              /\ items' = items \cup {doc}
              /\ nextId' = nextId + 1
              /\ Respond("POST", q, 201, <<doc>>)

\* POST /api/vault
VaultPOST(q) ==
    /\ UNCHANGED <<dbVars, now, gateVars, clientVars>>
    /\ CreateItem(q)

\* GET /api/vault/:id
VaultGET(q) ==
    /\ UNCHANGED <<dbVars, items, nextId, now, gateVars, clientVars>>
    /\ IF q.user = NoSession THEN Respond("GET", q, 401, <<>>)
       ELSE IF ~q.dbOk \/ q.id = BadId THEN Respond("GET", q, 500, <<>>)
       ELSE IF ByIdAndUser(q.id, q.user) = {} THEN Respond("GET", q, 404, <<>>)
       ELSE \E it \in ByIdAndUser(q.id, q.user) : Respond("GET", q, 200, <<it>>)

\* Faulty variant: findOneAndUpdate run with upsert, so that an update that
\* matches nothing inserts the document.
PutNoMatchUpserts(q) ==
    LET new == NewDocument(q.id, q.user, q.body, now) IN
      /\ items' = items \cup {new}
      /\ Respond("PUT", q, 200, <<new>>)

\* findOneAndUpdate matched nothing: if (!item) return 404
PutNoMatch(q) == Respond("PUT", q, 404, <<>>) /\ UNCHANGED items

\* The handler of PUT /api/vault/:id: what it stores and answers.
UpdateItem(q) ==
    IF q.user = NoSession
    THEN Respond("PUT", q, 401, <<>>) /\ UNCHANGED items
    ELSE IF TitleMissing(q.body)
    THEN Respond("PUT", q, 400, <<>>) /\ UNCHANGED items
    ELSE IF ~q.dbOk \/ q.id = BadId
    THEN Respond("PUT", q, 500, <<>>) /\ UNCHANGED items
    ELSE IF ByIdAndUser(q.id, q.user) = {}
    THEN PutNoMatch(q)
    ELSE \E it \in ByIdAndUser(q.id, q.user) :
           LET new == Replaced(it, q.body, now) IN
             /\ items' = (items \ {it}) \cup {new}
             /\ Respond("PUT", q, 200, <<new>>)

\* PUT /api/vault/:id
VaultPUT(q) ==
    /\ UNCHANGED <<dbVars, nextId, now, gateVars, clientVars>>
    /\ UpdateItem(q)

\* Faulty variant: DELETE /api/vault/:id without the check of the session.
VaultDELETEUnchecked(q) ==
    /\ UNCHANGED <<dbVars, nextId, now, gateVars, clientVars>>
    /\ IF ~q.dbOk \/ q.id = BadId
       THEN Respond("DELETE", q, 500, <<>>) /\ UNCHANGED items
       ELSE IF \A it \in items : it._id # q.id
       THEN Respond("DELETE", q, 404, <<>>) /\ UNCHANGED items
       ELSE /\ items' = {it \in items : it._id # q.id}
            /\ Respond("DELETE", q, 200, <<>>)

\* DELETE /api/vault/:id
VaultDELETE(q) ==
    /\ UNCHANGED <<dbVars, nextId, now, gateVars, clientVars>>
    /\ IF q.user = NoSession
       THEN Respond("DELETE", q, 401, <<>>) /\ UNCHANGED items
       ELSE IF ~q.dbOk \/ q.id = BadId
       THEN Respond("DELETE", q, 500, <<>>) /\ UNCHANGED items
       ELSE IF ByIdAndUser(q.id, q.user) = {}
       THEN Respond("DELETE", q, 404, <<>>) /\ UNCHANGED items
       ELSE \E it \in ByIdAndUser(q.id, q.user) :
                /\ items' = items \ {it}
                /\ Respond("DELETE", q, 200, <<>>)

\* Time passes on the server.
Tick ==
    /\ now < MaxTime
    /\ now' = now + 1
    /\ UNCHANGED <<dbVars, items, nextId, vresp, gateVars, clientVars>>

NoHash == Empty                     \* masterPasswordHash not set
InitUsers == [u \in Owners |-> [email |-> EmailOf(u), masterPasswordHash |-> NoHash]]

\* A request slot of /api/master-password: the request, where its handler
\* stands (idle, sent, save, done) and its answer. JSON members missing from a
\* body are Undefined; members missing from an answer are FALSE (the callers
\* only test them for truth).
NoAction == "undefined"             \* no `action` member (actions are compared as strings)
NoMPBody ==
    [masterPassword |-> Undefined, action |-> NoAction,
     oldMasterPassword |-> Undefined, newMasterPassword |-> Undefined]
NoMPResp ==
    [status |-> 0, success |-> FALSE, valid |-> FALSE, hasMasterPassword |-> FALSE,
     error |-> "none"]
Idle ==
    [pc |-> "idle", method |-> "none", user |-> NoSession, body |-> NoMPBody,
     dbOk |-> TRUE, resp |-> NoMPResp]

\* No import under way; no operation has asked for the key yet.
NoImport == [key |-> Null, rest |-> <<>>]
NoOp == [op |-> "none", outcome |-> "none", out |-> <<>>]

\* lib/mongodb. A connection attempt (a call of mongoose.connect) is known by
\* its number, and so are its promise and the connection it resolves to.
NumCallers == 3     \* handlers that call connectDB
MaxAttempts == 3    \* calls of mongoose.connect
DbCallers == 1..NumCallers
NoConn == 0         \* cached.conn is null
NoPromise == 0      \* cached.promise is null
NotCalling == [pc |-> "idle", promise |-> NoPromise, conn |-> NoConn]

InitDB ==
    /\ cached = [conn |-> NoConn, promise |-> NoPromise]
    /\ loop = [attempts |-> <<>>, awaiting |-> <<>>, microtasks |-> <<>>,
               calls |-> [c \in DbCallers |-> NotCalling]]

Init ==
    /\ InitDB
    /\ items = {}
    /\ nextId = 1
    /\ now = 0
    /\ vresp = NoResp
    /\ users = InitUsers
    /\ reqs = [r \in 1..NumSlots |-> Idle]
    /\ lastSecret = [u \in Owners |-> Empty]
    /\ encryptionKey = Null /\ isLocked = TRUE
    /\ showPrompt = FALSE /\ isFirstTime = FALSE /\ isValidating = FALSE
    /\ error = "" /\ page = "vault" /\ session = "alice"
    /\ vaultItems = <<>> /\ listOut = FALSE /\ showExportImport = FALSE
    /\ importJob = NoImport /\ vaultOp = NoOp

\* Requests the vault routes are driven with: every (owner, id, body) with the
\* store answering, and for the store failing or the session missing one
\* request per route (those answers depend on nothing else). A route reads
\* only the members of the request it uses.
VaultInputs ==
    [user : Owners, id : Ids \cup {BadId}, body : Bodies, dbOk : {TRUE}]
        \cup [user : {NoSession}, id : {1}, body : {Body0}, dbOk : {TRUE}]
        \cup [user : Owners, id : {1}, body : {Body0}, dbOk : {FALSE}]
NoBody(I) == {q \in I : q.body = Body0}
NoId(I) == {q \in I : q.id = 1}

Next ==
    \/ \E q \in NoId(NoBody(VaultInputs)) : VaultList(q)
    \/ \E q \in NoId(VaultInputs) : VaultPOST(q)
    \/ \E q \in NoBody(VaultInputs) : VaultGET(q)
    \/ \E q \in VaultInputs : VaultPUT(q)
    \/ \E q \in NoBody(VaultInputs) : VaultDELETE(q)
    \/ Tick

Spec == Init /\ [][Next]_vars

----------------------------------------------------------------------------
(* Master-password routes: /api/master-password *)

Ghost == "ghost"                    \* a session whose User document is gone
Slots == 1..NumSlots

\* bcryptjs: hash draws a random salt and stores it with the digest; compare
\* recomputes the digest with the stored salt.
Salts == {1, 2}
BcryptDigest(s, salt) == <<"digest", s, salt>>
bcryptHash(s, salt) == <<"$2", salt, BcryptDigest(s, salt)>>
bcryptCompare(s, hash) == BcryptDigest(s, hash[2]) = hash[3]

\* Faulty variant: 'set' never finds a verifier in place.
AlreadySetIgnored(user) == FALSE

\* if (user.masterPasswordHash) in action 'set'
AlreadySet(user) == ~Falsy(user.masterPasswordHash)

\* Faulty variant: a mismatch is answered as an error.
VerifyAnswerThrowing(masterPassword, user) ==
    IF bcryptCompare(masterPassword, user.masterPasswordHash)
    THEN [NoMPResp EXCEPT !.status = 200, !.valid = TRUE]
    ELSE [NoMPResp EXCEPT !.status = 401, !.error = "Invalid master password"]

\* isValid = await bcrypt.compare(...); return { valid: isValid, message }
VerifyAnswer(masterPassword, user) ==
    [NoMPResp EXCEPT !.status = 200,
                     !.valid = bcryptCompare(masterPassword, user.masterPasswordHash)]

\* Faulty variant: the old master password is not checked.
OldSecretUnchecked(oldMasterPassword, user) == TRUE

\* isValidOld = await bcrypt.compare(oldMasterPassword, user.masterPasswordHash)
isValidOld(oldMasterPassword, user) ==
    bcryptCompare(oldMasterPassword, user.masterPasswordHash)

Answer(status, msg) == [NoMPResp EXCEPT !.status = status, !.error = msg]

\* The handler of request q in slot r returns resp.
Return(r, q, resp) ==
    reqs' = [reqs EXCEPT ![r] =
                [pc |-> "done", method |-> q.method, user |-> q.user, body |-> q.body,
                 dbOk |-> q.dbOk, resp |-> resp]]

\* The handler of request q in slot r is past its checks and awaits bcrypt.hash.
Await(r, q) ==
    reqs' = [reqs EXCEPT ![r] =
                [pc |-> "save", method |-> q.method, user |-> q.user, body |-> q.body,
                 dbOk |-> q.dbOk, resp |-> NoMPResp]]

vaultVars == <<items, nextId, now, vresp>>

\* GET /api/master-password
MPGET(r, q) ==
    /\ UNCHANGED <<dbVars, vaultVars, clientVars, users, lastSecret>>
    /\ IF q.user = NoSession THEN Return(r, q, Answer(401, "Unauthorized"))
       ELSE IF ~q.dbOk THEN Return(r, q, Answer(500, "Failed to check master password"))
       ELSE IF q.user \notin DOMAIN users
       THEN Return(r, q, Answer(404, "User not found. Please login again."))
       ELSE Return(r, q, [NoMPResp EXCEPT !.status = 200, !.hasMasterPassword =
                              ~Falsy(users[q.user].masterPasswordHash)])

\* POST /api/master-password, up to the answer or to `await bcrypt.hash`
MPPOST(r, q) ==
    /\ UNCHANGED <<dbVars, vaultVars, clientVars, users, lastSecret>>
    /\ IF q.user = NoSession THEN Return(r, q, Answer(401, "Unauthorized"))
       ELSE IF Falsy(q.body.masterPassword)
       THEN Return(r, q, Answer(400, "Master password is required"))
       ELSE IF ~q.dbOk THEN Return(r, q, Answer(500, "Failed to process master password"))
       ELSE IF q.user \notin DOMAIN users
       THEN Return(r, q, Answer(404, "User not found. Please login again."))
       ELSE LET user == users[q.user] IN
            IF q.body.action = "set"
            THEN IF AlreadySet(user)
                 THEN Return(r, q, Answer(400, "Master password already set"))
                 ELSE Await(r, q)
            ELSE IF q.body.action = "verify"
            THEN IF Falsy(user.masterPasswordHash)
                 THEN Return(r, q, Answer(400, "Master password not set yet"))
                 ELSE Return(r, q, VerifyAnswer(q.body.masterPassword, user))
            ELSE Return(r, q, Answer(400, "Invalid action"))

\* POST /api/master-password, action 'set': the hash is computed,
\* user.masterPasswordHash = hash; await user.save()
MPPOSTSave(r) ==
    /\ reqs[r].pc = "save" /\ reqs[r].method = "POST"
    /\ \E salt \in Salts :
         users' = [users EXCEPT ![reqs[r].user].masterPasswordHash =
                      bcryptHash(reqs[r].body.masterPassword, salt)]
    /\ lastSecret' = [lastSecret EXCEPT ![reqs[r].user] = reqs[r].body.masterPassword]
    /\ Return(r, reqs[r], [NoMPResp EXCEPT !.status = 200, !.success = TRUE])
    /\ UNCHANGED <<dbVars, vaultVars, clientVars>>

\* PUT /api/master-password, up to the answer or to `await bcrypt.hash`
MPPUT(r, q) ==
    /\ UNCHANGED <<dbVars, vaultVars, clientVars, users, lastSecret>>
    /\ IF q.user = NoSession THEN Return(r, q, Answer(401, "Unauthorized"))
       ELSE IF Falsy(q.body.oldMasterPassword) \/ Falsy(q.body.newMasterPassword)
       THEN Return(r, q, Answer(400, "Both old and new master passwords are required"))
       ELSE IF ~q.dbOk THEN Return(r, q, Answer(500, "Failed to change master password"))
       ELSE IF q.user \notin DOMAIN users THEN Return(r, q, Answer(404, "User not found"))
       ELSE LET user == users[q.user] IN
            IF Falsy(user.masterPasswordHash)
            THEN Return(r, q, Answer(400, "No master password set"))
            ELSE IF ~isValidOld(q.body.oldMasterPassword, user)
            THEN Return(r, q, Answer(401, "Old master password is incorrect"))
            ELSE Await(r, q)

\* Faulty variant: the route also re-encrypts the owner's items under the new key.
ReEncrypted(it, oldKey, newKey) ==
    LET plain == decryptVaultItem(it, oldKey, Strict) IN
    IF plain = DecryptError THEN it
    ELSE [_id |-> it._id, userId |-> it.userId, createdAt |-> it.createdAt,
          updatedAt |-> it.updatedAt]
            @@ encryptVaultItem(plain, newKey,
                                [title |-> 2, username |-> 2, password |-> 1,
                                 url |-> 2, notes |-> 1])

MPPUTSaveReEncrypting(r) ==
    /\ reqs[r].pc = "save" /\ reqs[r].method = "PUT"
    /\ \E salt \in Salts :
         users' = [users EXCEPT ![reqs[r].user].masterPasswordHash =
                      bcryptHash(reqs[r].body.newMasterPassword, salt)]
    /\ lastSecret' = [lastSecret EXCEPT ![reqs[r].user] = reqs[r].body.newMasterPassword]
    /\ Return(r, reqs[r], [NoMPResp EXCEPT !.status = 200, !.success = TRUE])
    /\ items' = {IF it.userId = reqs[r].user
                 THEN ReEncrypted(it,
                        deriveKey(reqs[r].body.oldMasterPassword, users[reqs[r].user].email),
                        deriveKey(reqs[r].body.newMasterPassword, users[reqs[r].user].email))
                 ELSE it : it \in items}
    /\ UNCHANGED <<dbVars, nextId, now, vresp, clientVars>>

\* PUT /api/master-password: user.masterPasswordHash = newHash; await user.save()
MPPUTSave(r) ==
    /\ reqs[r].pc = "save" /\ reqs[r].method = "PUT"
    /\ \E salt \in Salts :
         users' = [users EXCEPT ![reqs[r].user].masterPasswordHash =
                      bcryptHash(reqs[r].body.newMasterPassword, salt)]
    /\ lastSecret' = [lastSecret EXCEPT ![reqs[r].user] = reqs[r].body.newMasterPassword]
    /\ Return(r, reqs[r], [NoMPResp EXCEPT !.status = 200, !.success = TRUE])
    /\ UNCHANGED <<dbVars, vaultVars, clientVars>>

----------------------------------------------------------------------------
(* The master-password routes under concurrent requests of API callers *)

Fresh(r) == reqs[r].pc \in {"idle", "done"}

MPBodies(mps, actions, olds, news) ==
    [masterPassword : mps, action : actions, oldMasterPassword : olds,
     newMasterPassword : news]

\* Requests of the signed-in owner alice in full; of bob, of a missing
\* session, of a deleted user and with the store failing, one per case.
GetInputs ==
    [method : {"GET"}, user : Owners \cup {NoSession, Ghost}, body : {NoMPBody},
     dbOk : {TRUE}]
        \cup [method : {"GET"}, user : {"alice"}, body : {NoMPBody}, dbOk : {FALSE}]
PostBodies ==
    MPBodies(Secrets \cup {Undefined}, {"set", "verify", "reset"}, {Undefined}, {Undefined})
PostInputs ==
    [method : {"POST"}, user : {"alice"}, body : PostBodies, dbOk : {TRUE}]
        \cup [method : {"POST"}, user : {"bob", NoSession, Ghost},
              body : MPBodies({Secret2}, {"set"}, {Undefined}, {Undefined}), dbOk : {TRUE}]
        \cup [method : {"POST"}, user : {"alice"},
              body : MPBodies({Secret1}, {"set"}, {Undefined}, {Undefined}), dbOk : {FALSE}]
        \cup [method : {"POST"}, user : {"alice"},
              body : MPBodies({ShortSecret}, {"set", "verify"}, {Undefined}, {Undefined}),
              dbOk : {TRUE}]
PutBodies ==
    MPBodies({Undefined}, {NoAction}, Secrets \cup {Undefined}, Secrets \cup {Undefined})
PutInputs ==
    [method : {"PUT"}, user : {"alice"}, body : PutBodies, dbOk : {TRUE}]
        \cup [method : {"PUT"}, user : {"bob", NoSession, Ghost},
              body : MPBodies({Undefined}, {NoAction}, {Secret2}, {Secret1}), dbOk : {TRUE}]
        \cup [method : {"PUT"}, user : {"alice"},
              body : MPBodies({Undefined}, {NoAction}, {Secret1}, {Secret2}), dbOk : {FALSE}]

\* The first caller sends every request above; the callers that run beside it
\* send alice's well-formed ones.
Beside(I) ==
    {q \in I : q.user = "alice" /\ q.dbOk /\ q.body.action \in {NoAction, "set", "verify"}
                 /\ (q.method = "POST" => ~Falsy(q.body.masterPassword))
                 /\ (q.method = "PUT" => q.body.oldMasterPassword = Secret1
                                           /\ q.body.newMasterPassword = Secret2)}
InputsOf(r, I) == IF r = 1 THEN I ELSE Beside(I)

ApiGET(r) == Fresh(r) /\ \E q \in InputsOf(r, GetInputs) : MPGET(r, q)
ApiPOST(r) == Fresh(r) /\ \E q \in InputsOf(r, PostInputs) : MPPOST(r, q)
ApiPUT(r) == Fresh(r) /\ \E q \in InputsOf(r, PutInputs) : MPPUT(r, q)

\* An owner whose vault is unlocked with the verified secret s saves an item:
\* VaultItemForm.handleSubmit encrypts the form under the session key and
\* handleAddItem posts it.
Form1 == [title |-> <<"pt", "bank">>, username |-> Empty, password |-> <<"pt", "mail">>,
          url |-> Empty, notes |-> Empty]
Rnd1 == [title |-> 1, username |-> 1, password |-> 2, url |-> 1, notes |-> 2]

UnlockedAddItem(u, s) ==
    /\ ~Falsy(users[u].masterPasswordHash)
    /\ bcryptCompare(s, users[u].masterPasswordHash)
    /\ VaultPOST([user |-> u, id |-> BadId, dbOk |-> TRUE,
                  body |-> encryptVaultItem(Form1, deriveKey(s, users[u].email), Rnd1)])

InitGate == Init

NextGate ==
    \/ \E r \in Slots : ApiGET(r)
    \/ \E r \in Slots : ApiPOST(r)
    \/ \E r \in Slots : MPPOSTSave(r)
    \/ \E r \in Slots : ApiPUT(r)
    \/ \E r \in Slots : MPPUTSave(r)
    \/ \E s \in Secrets : UnlockedAddItem("alice", s)

SpecGate == InitGate /\ [][NextGate]_vars

----------------------------------------------------------------------------
(* The browser: EncryptionProvider, VaultDashboard, MasterPasswordPrompt *)

Lower == {"a", "b", "c", "d", "e", "f", "g", "h", "i", "j", "k", "l", "m", "n", "o",
          "p", "q", "r", "s", "t", "u", "v", "w", "x", "y", "z"}
Upper == {"A", "B", "C", "D", "E", "F", "G", "H", "I", "J", "K", "L", "M", "N", "O",
          "P", "Q", "R", "S", "T", "U", "V", "W", "X", "Y", "Z"}
Digit == {"0", "1", "2", "3", "4", "5", "6", "7", "8", "9"}

Has(password, class) == \E i \in 1..Len(password) : password[i] \in class
B2N(b) == IF b THEN 1 ELSE 0

\* Faulty variant: two of the five conditions still count as weak.
validateLenient(password) ==
    IF Len(password) < 8
    THEN [isValid |-> FALSE, message |-> TRUE, strength |-> "weak"]
    ELSE LET score == B2N(Len(password) >= 12) + B2N(Len(password) >= 16)
                        + B2N(Has(password, Lower) /\ Has(password, Upper))
                        + B2N(Has(password, Digit))
                        + B2N(\E i \in 1..Len(password) :
                                  password[i] \notin Lower \cup Upper \cup Digit)
             strength == IF score <= 2 THEN "weak"
                         ELSE IF score = 3 \/ score = 4 THEN "strong"
                         ELSE "very-strong"
         IN  [isValid |-> TRUE, message |-> strength = "weak", strength |-> strength]

\* validateMasterPassword
validateMasterPassword(password) ==
    IF Len(password) < 8
    THEN [isValid |-> FALSE, message |-> TRUE, strength |-> "weak"]
    ELSE LET score == B2N(Len(password) >= 12) + B2N(Len(password) >= 16)
                        + B2N(Has(password, Lower) /\ Has(password, Upper))
                        + B2N(Has(password, Digit))
                        + B2N(\E i \in 1..Len(password) :
                                  password[i] \notin Lower \cup Upper \cup Digit)
             strength == IF score <= 1 THEN "weak"
                         ELSE IF score = 2 THEN "medium"
                         ELSE IF score = 3 \/ score = 4 THEN "strong"
                         ELSE "very-strong"
         IN  [isValid |-> TRUE, message |-> strength = "weak", strength |-> strength]

\* What a user may type into the prompt.
Typed == Secrets \cup {WeakSecret, ShortSecret}

hasKey == encryptionKey # Null

\* Faulty variant: the key is dropped and the lock flag is left as it was.
clearKeyOnly == encryptionKey' = Null /\ UNCHANGED isLocked

\* clearEncryptionKey (both setters run in one callback: one render)
clearEncryptionKey == encryptionKey' = Null /\ isLocked' = TRUE

\* setupEncryptionKey: returns validation.isValid; then derives and stores
\* the key (both setters run in one callback: one render).
setupReturns(masterPassword) == validateMasterPassword(masterPassword).isValid

setupEncryptionKey(masterPassword, email) ==
    IF ~setupReturns(masterPassword)
    THEN UNCHANGED ctxVars
    ELSE encryptionKey' = deriveKey(masterPassword, email) /\ isLocked' = FALSE

CheckSlot == 1                      \* the prompt's checkMasterPassword request
SubmitSlot == 2                     \* the prompt's handleSubmit request
Active == page # "login"

Sent(method, body) ==
    [pc |-> "sent", method |-> method, user |-> session, body |-> body, dbOk |-> TRUE,
     resp |-> NoMPResp]

\* The prompt mounts: fresh state, and its effect runs checkMasterPassword
\* (a check still out for an earlier prompt is dropped: nothing reads its answer).
MountPrompt ==
    /\ showPrompt' = TRUE
    /\ isFirstTime' = FALSE /\ isValidating' = FALSE /\ error' = ""
    /\ reqs' = [reqs EXCEPT ![CheckSlot] = Sent("GET", NoMPBody)]

\* VaultDashboard's effect on [hasKey]: no key, show the prompt.
DashboardEffect ==
    /\ Active /\ ~hasKey /\ ~showPrompt
    /\ MountPrompt
    /\ UNCHANGED <<dbVars, vaultVars, users, lastSecret, ctxVars, page, session, dashVars>>

\* checkMasterPassword, after the answer came
CheckAnswered ==
    /\ Active /\ reqs[CheckSlot].pc = "done"
    /\ reqs' = [reqs EXCEPT ![CheckSlot] = Idle]
    /\ IF ~showPrompt THEN UNCHANGED <<isFirstTime, page>>
       ELSE IF reqs[CheckSlot].resp.status = 404
       THEN page' = "login" /\ UNCHANGED isFirstTime
       ELSE isFirstTime' = ~reqs[CheckSlot].resp.hasMasterPassword /\ UNCHANGED page
    /\ UNCHANGED <<dbVars, vaultVars, users, lastSecret, ctxVars, showPrompt, isValidating, error,
                   session, dashVars>>

\* fetch rejects: the request did not arrive or its answer was lost.
FetchFails(r) ==
    /\ Active /\ reqs[r].pc \in {"sent", "done"}
    /\ reqs' = [reqs EXCEPT ![r] = Idle]
    /\ IF r = SubmitSlot
       THEN error' = "Failed to verify master password" /\ isValidating' = FALSE
       ELSE UNCHANGED <<error, isValidating>>
    /\ UNCHANGED <<dbVars, vaultVars, users, lastSecret, ctxVars, showPrompt, isFirstTime, page,
                   session, dashVars>>

\* handleSubmit, up to the fetch
HandleSubmit(masterPassword) ==
    /\ Active /\ showPrompt
    /\ ~isValidating /\ Len(masterPassword) >= 8        \* else the button is disabled
    /\ LET validation == validateMasterPassword(masterPassword) IN
       IF ~validation.isValid
       THEN error' = "Invalid master password" /\ UNCHANGED <<reqs, isValidating>>
       ELSE IF validation.strength = "weak"
       THEN error' = "Consider using a stronger master password"
            /\ UNCHANGED <<reqs, isValidating>>
       ELSE /\ error' = "" /\ isValidating' = TRUE
            /\ reqs' = [reqs EXCEPT ![SubmitSlot] =
                          Sent("POST", [NoMPBody EXCEPT
                                          !.masterPassword = masterPassword,
                                          !.action = IF isFirstTime THEN "set"
                                                     ELSE "verify"])]
    /\ UNCHANGED <<dbVars, vaultVars, users, lastSecret, ctxVars, showPrompt, isFirstTime, page,
                   session, dashVars>>

ResponseOk(resp) == resp.status \in 200..299

\* Faulty variant: the verify branch trusts the status, like the set branch.
ProceedsOnOk(q) == ResponseOk(q.resp)

\* handleSubmit reaches onSubmit(masterPassword) with answer q.resp:
\* set: not 404 and response.ok; verify: data.valid.
Proceeds(q) ==
    IF q.body.action = "set" THEN q.resp.status # 404 /\ ResponseOk(q.resp)
    ELSE q.resp.valid

\* handleSubmit, after the answer came; onSubmit is
\* VaultDashboard.handleMasterPasswordSubmit, which passes user.email: the
\* user the page was opened for, under whose session the request went out.
SubmitAnswered ==
    /\ Active /\ reqs[SubmitSlot].pc = "done"
    /\ reqs' = [reqs EXCEPT ![SubmitSlot] = Idle]
    /\ isValidating' = FALSE
    /\ LET q == reqs[SubmitSlot] IN
       IF Proceeds(q)
       THEN /\ setupEncryptionKey(q.body.masterPassword, EmailOf(q.user))
            /\ showPrompt' = (showPrompt /\ ~setupReturns(q.body.masterPassword))
            /\ listOut' = (listOut \/ setupReturns(q.body.masterPassword))
            /\ UNCHANGED <<error, page>>
       ELSE /\ UNCHANGED <<ctxVars, showPrompt, listOut>>
            /\ IF q.body.action = "set" /\ q.resp.status = 404
               THEN page' = "login" /\ UNCHANGED error
               ELSE /\ error' = IF q.body.action = "set" THEN q.resp.error
                                ELSE "Wrong master password"
                    /\ UNCHANGED page
    /\ UNCHANGED <<dbVars, vaultVars, users, lastSecret, isFirstTime, session, vaultItems,
                   showExportImport, importJob, vaultOp>>

\* handleLockVault (the Lock button shows with a key held; the open modal
\* covers it)
LockVault ==
    /\ page = "vault" /\ hasKey /\ ~showPrompt /\ ~showExportImport
    /\ clearEncryptionKey
    /\ MountPrompt
    /\ vaultItems' = <<>>
    /\ UNCHANGED <<dbVars, vaultVars, users, lastSecret, page, session, listOut, showExportImport,
                   importJob, vaultOp>>

\* handleSignOut: clearEncryptionKey(), then await signOut(); it is the Sign
\* Out button of the dashboard and the Cancel button of the prompt.
SignOut ==
    /\ page = "vault" /\ ~showExportImport
    /\ clearEncryptionKey
    /\ page' = "signing-out"
    /\ UNCHANGED <<dbVars, vaultVars, gateVars, showPrompt, isFirstTime, isValidating, error,
                   session, dashVars>>

\* next-auth signOut ends the session and redirects to /login.
SignedOut ==
    /\ page = "signing-out"
    /\ page' = "login" /\ session' = NoSession
    /\ UNCHANGED <<dbVars, vaultVars, gateVars, ctxVars, showPrompt, isFirstTime, isValidating,
                   error, dashVars>>

\* The session cookie expires while the page is open.
SessionExpires ==
    /\ Active /\ session # NoSession
    /\ session' = NoSession
    /\ UNCHANGED <<dbVars, vaultVars, gateVars, ctxVars, showPrompt, isFirstTime, isValidating,
                   error, page, dashVars>>

\* The server takes up a request of the browser.
ServeGET(r) ==
    /\ reqs[r].pc = "sent" /\ reqs[r].method = "GET"
    /\ \E ok \in BOOLEAN : MPGET(r, [reqs[r] EXCEPT !.dbOk = ok])

ServePOST(r) ==
    /\ reqs[r].pc = "sent" /\ reqs[r].method = "POST"
    /\ \E ok \in BOOLEAN : MPPOST(r, [reqs[r] EXCEPT !.dbOk = ok])

----------------------------------------------------------------------------
(* The browser's operations on the vault: VaultItemForm, VaultItemCard,     *)
(* ExportImportModal, VaultDashboard.handleAddItem / handleImportItems.     *)
(* A request of the browser is handled by the server in the step that sends *)
(* it.                                                                      *)

\* What a user may fill into the form; an imported item may lack attributes.
Spaces == <<"pt", " ">>             \* a text of blanks only
trim(v) == IF v = Spaces THEN Empty ELSE v
FormBlank == [title |-> Spaces, username |-> Empty, password |-> Empty, url |-> Empty,
              notes |-> Empty]
EditForm == [title |-> <<"pt", "mail">>, username |-> <<"pt", "bank">>, password |-> Empty,
             url |-> Empty, notes |-> Empty]
Forms == {Form1, FormBlank}
ImportItem == [title |-> <<"pt", "mail">>, username |-> Undefined, password |-> Null,
               url |-> <<"pt", "bank">>, notes |-> Empty]
Rnd2 == [title |-> 2, username |-> 2, password |-> 1, url |-> 2, notes |-> 1]

\* getEncryptionKey
getEncryptionKey == encryptionKey

Op(op, outcome, out) == [op |-> op, outcome |-> outcome, out |-> out]

\* fetch('/api/vault', { method: 'POST', body: JSON.stringify(encryptedData) })
PostOf(encryptedData, ok) ==
    [user |-> session, id |-> BadId, body |-> encryptedData, dbOk |-> ok]

\* fetch(`/api/vault/${editingItem?._id}`, { method: 'PUT', body })
PutOf(id, encryptedData, ok) ==
    [user |-> session, id |-> id, body |-> encryptedData, dbOk |-> ok]

\* VaultItemForm.handleSubmit; onSubmit is handleAddItem for the add form
\* (k = 0) and handleUpdateItem for the edit form opened from the k-th card.
FormSubmit(formData, k) ==
    /\ Active /\ ~showPrompt /\ ~showExportImport
    /\ k \in 0..Len(vaultItems)
    /\ LET key == getEncryptionKey
           encryptedData == encryptVaultItem(formData, key, Rnd1) IN
       IF Falsy(trim(formData.title))
       THEN /\ vaultOp' = Op("save", "invalid", <<>>)
            /\ UNCHANGED <<vaultVars, listOut>>
       ELSE IF key = Null
       THEN /\ vaultOp' = Op("save", "refused", <<>>)
            /\ UNCHANGED <<vaultVars, listOut>>
       ELSE /\ \E ok \in BOOLEAN :
                 IF k = 0
                 THEN CreateItem(PostOf(encryptedData, ok))
                 ELSE /\ UpdateItem(PutOf(vaultItems[k]._id, encryptedData, ok))
                      /\ UNCHANGED nextId
            /\ vaultOp' = Op("save", IF ResponseOk(vresp') THEN "saved" ELSE "failed", <<>>)
            /\ listOut' = (listOut \/ ResponseOk(vresp'))
            /\ UNCHANGED now
    /\ UNCHANGED <<dbVars, gateVars, ctxVars, uiVars, vaultItems, showExportImport, importJob>>

\* fetchVaultItems, when its answer comes
FetchLanded ==
    /\ Active /\ listOut
    /\ \E ok \in BOOLEAN :
         ListItems([user |-> session, id |-> BadId, body |-> Body0, dbOk |-> ok])
    /\ vaultItems' = IF vresp'.status = 200 THEN vresp'.items ELSE vaultItems
    /\ listOut' = FALSE
    /\ UNCHANGED <<dbVars, items, nextId, now, gateVars, ctxVars, uiVars, showExportImport,
                   importJob, vaultOp>>

\* VaultItemCard.handleDecrypt on the k-th card
DecryptCard(k) ==
    /\ Active /\ ~showPrompt /\ ~showExportImport
    /\ k \in 1..Len(vaultItems)
    /\ \E luck \in Lucks :
         LET key == getEncryptionKey
             decryptedData == decryptVaultItem(vaultItems[k], key, luck) IN
         vaultOp' = IF key = Null THEN Op("decrypt", "refused", <<>>)
                    ELSE IF decryptedData = DecryptError THEN Op("decrypt", "failed", <<>>)
                    ELSE Op("decrypt", "shown", <<decryptedData>>)
    /\ UNCHANGED <<dbVars, vaultVars, gateVars, ctxVars, uiVars, vaultItems, listOut,
                   showExportImport, importJob>>

\* The export / import button (it shows with a key held) and the modal's
\* close button or its timer after an import.
OpenModal ==
    /\ page = "vault" /\ hasKey /\ ~showPrompt /\ ~showExportImport
    /\ showExportImport' = TRUE
    /\ UNCHANGED <<dbVars, vaultVars, gateVars, ctxVars, uiVars, vaultItems, listOut, importJob,
                   vaultOp>>

CloseModal ==
    /\ Active /\ showExportImport
    /\ showExportImport' = FALSE
    /\ UNCHANGED <<dbVars, vaultVars, gateVars, ctxVars, uiVars, vaultItems, listOut, importJob,
                   vaultOp>>

\* The items of vaultItems that decrypt under the key, in order
\* (handleExportJSON / handleExportCSV drop the others).
RECURSIVE Decryptable(_, _, _)
Decryptable(its, key, luck) ==
    IF its = <<>> THEN <<>>
    ELSE LET d == decryptVaultItem(Head(its), key, luck) IN
         IF d = DecryptError THEN Decryptable(Tail(its), key, luck)
         ELSE <<d>> \o Decryptable(Tail(its), key, luck)

\* ExportImportModal.handleExportJSON / handleExportCSV
Export ==
    /\ Active /\ showExportImport
    /\ \E luck \in Lucks :
         LET key == getEncryptionKey IN
         vaultOp' = IF key = Null THEN Op("export", "refused", <<>>)
                    ELSE Op("export", "exported", Decryptable(vaultItems, key, luck))
    /\ UNCHANGED <<dbVars, vaultVars, gateVars, ctxVars, uiVars, vaultItems, listOut,
                   showExportImport, importJob>>

\* JavaScript values read from a file: s holds the characters of a string, v
\* the elements of an array.
JUndefined == [t |-> "undefined", s |-> <<>>, v |-> <<>>]
JNull == [t |-> "null", s |-> <<>>, v |-> <<>>]
JString(chars) == [t |-> "string", s |-> chars, v |-> <<>>]
JArray(elements) == [t |-> "array", s |-> <<>>, v |-> elements]
JObject(version, importItems) == [t |-> "object", version |-> version, items |-> importItems]
Truthy(j) == j.t \notin {"undefined", "null"} /\ ~(j.t = "string" /\ j.s = <<>>)

\* File contents: text that is not JSON, or the JSON text of a value.
NotJson == [json |-> FALSE, data |-> JUndefined]
JsonOf(data) == [json |-> TRUE, data |-> data]

\* exportVaultToJSON
exportVaultToJSON(exported) == JsonOf(JObject(JString(<<"1.0.0">>), JArray(exported)))

ParseError(detail) ==
    [ok |-> FALSE, error |-> <<"Failed to parse vault file: ", detail>>, items |-> <<>>]

\* Faulty variant: any truthy items member is taken for the list.
ItemsNotListed(data) == FALSE

\* !Array.isArray(data.items)
ItemsNotArray(data) == data.items.t # "array"

\* parseImportedVault: JSON.parse throws on text that is not JSON, and
\* data.version throws when the text is the JSON of null; both are caught and
\* thrown again like the error of the format test.
parseImportedVault(jsonString) ==
    IF ~jsonString.json THEN ParseError("Unexpected token")
    ELSE LET data == jsonString.data IN
         IF data.t = "null" THEN ParseError("Cannot read properties of null")
         ELSE IF data.t # "object" THEN ParseError("Invalid vault export format")
         ELSE IF ~Truthy(data.version) \/ ~Truthy(data.items) \/ ItemsNotArray(data)
         THEN ParseError("Invalid vault export format")
         ELSE [ok |-> TRUE, error |-> <<>>, items |-> data.items.v]

\* The files a user may pick: an item of a bundle may lack its title.
Untitled == [title |-> Undefined, username |-> <<"pt", "bank">>, password |-> Empty,
             url |-> Empty, notes |-> Empty]
Bundles == UNION {[1..n -> {ImportItem, Untitled}] : n \in 0..MaxImport}
Files ==
    {NotJson, JsonOf(JNull), JsonOf(JString(<<"x">>))}
        \cup {JsonOf(JObject(version, importItems)) :
                 version \in {JUndefined, JString(<<>>), JString(<<"1.0.0">>)},
                 importItems \in {JUndefined, JNull, JString(<<"x">>)}
                                    \cup {JArray(b) : b \in Bundles}}

\* Bundles of items that have their title.
WellFormedFiles ==
    {JsonOf(JObject(JString(<<"1.0.0">>), JArray(b))) :
        b \in UNION {[1..n -> {ImportItem}] : n \in 1..MaxImport}}

\* Faulty variant: the batch stops at the first item the server turns down.
ImportOneAborting(key, rest) ==
    /\ \/ /\ \E ok \in BOOLEAN :
                CreateItem(PostOf(encryptVaultItem(Head(rest), key, Rnd2), ok))
          /\ importJob' = IF Len(rest) = 1 \/ ~ResponseOk(vresp') THEN NoImport
                          ELSE [key |-> key, rest |-> Tail(rest)]
          /\ listOut' = (listOut \/ Len(rest) = 1)
          /\ showExportImport' = (showExportImport /\ Len(rest) # 1)
       \/ /\ importJob' = NoImport
          /\ UNCHANGED <<items, nextId, vresp, listOut, showExportImport>>
    /\ UNCHANGED now

\* One turn of the loop of handleImportItems: encrypt the item under the key
\* the handler read when it began and post it. The answer is not looked at;
\* after the last one fetchVaultItems and close the modal. When fetch rejects
\* (the request fails) the handler throws: the items left are dropped.
ImportOne(key, rest) ==
    /\ \/ /\ \E ok \in BOOLEAN :
                CreateItem(PostOf(encryptVaultItem(Head(rest), key, Rnd2), ok))
          /\ importJob' = IF Len(rest) = 1 THEN NoImport
                          ELSE [key |-> key, rest |-> Tail(rest)]
          /\ listOut' = (listOut \/ Len(rest) = 1)
          /\ showExportImport' = (showExportImport /\ Len(rest) # 1)
       \/ /\ importJob' = NoImport
          /\ UNCHANGED <<items, nextId, vresp, listOut, showExportImport>>
    /\ UNCHANGED now

\* ExportImportModal.handleImport of a file: it refuses without a key and
\* shows the error of a file that does not parse or holds no item; else
\* onImport = handleImportItems reads the key and sends the first item, and
\* the modal announces success without waiting.
ImportStart(file) ==
    /\ Active /\ showExportImport /\ importJob = NoImport
    /\ LET key == getEncryptionKey
           importedVault == parseImportedVault(file) IN
       IF key = Null
       THEN /\ vaultOp' = Op("import", "refused", <<>>)
            /\ UNCHANGED <<vaultVars, listOut, showExportImport, importJob>>
       ELSE IF ~importedVault.ok
       THEN /\ vaultOp' = Op("import", "rejected", importedVault.error)
            /\ UNCHANGED <<vaultVars, listOut, showExportImport, importJob>>
       ELSE IF Len(importedVault.items) = 0
       THEN /\ vaultOp' = Op("import", "rejected", <<"No items found in import file">>)
            /\ UNCHANGED <<vaultVars, listOut, showExportImport, importJob>>
       ELSE /\ ImportOne(key, importedVault.items)
            /\ vaultOp' = Op("import", "success", <<>>)
    /\ UNCHANGED <<dbVars, gateVars, ctxVars, uiVars, vaultItems>>

\* The file picked is the one the last export wrote.
ImportExported ==
    /\ vaultOp.op = "export" /\ vaultOp.outcome = "exported"
    /\ ImportStart(exportVaultToJSON(vaultOp.out))

\* handleImportItems goes on after the answer to its last request.
ImportNext ==
    /\ Active /\ importJob # NoImport
    /\ ImportOne(importJob.key, importJob.rest)
    /\ UNCHANGED <<dbVars, gateVars, ctxVars, uiVars, vaultItems, vaultOp>>

\* The page is opened by alice, who may have set her master password in an
\* earlier session, or by a session whose user is gone.
InitSession ==
    /\ InitDB
    /\ items = {} /\ nextId = 1 /\ now = 0 /\ vresp = NoResp
    /\ reqs = [r \in Slots |-> Idle]
    /\ \E s \in {Empty, Secret1} :
         /\ lastSecret = [u \in Owners |-> IF u = "alice" THEN s ELSE Empty]
         /\ users = [InitUsers EXCEPT !["alice"].masterPasswordHash =
                        IF s = Empty THEN NoHash ELSE bcryptHash(s, 1)]
    /\ encryptionKey = Null /\ isLocked = TRUE
    /\ showPrompt = FALSE /\ isFirstTime = FALSE /\ isValidating = FALSE
    /\ error = "" /\ page = "vault"
    /\ session \in {"alice", Ghost}
    /\ vaultItems = <<>> /\ listOut = FALSE /\ showExportImport = FALSE
    /\ importJob = NoImport /\ vaultOp = NoOp

NextSession ==
    \/ DashboardEffect
    \/ CheckAnswered
    \/ \E r \in {CheckSlot, SubmitSlot} : FetchFails(r)
    \/ \E p \in Typed : HandleSubmit(p)
    \/ SubmitAnswered
    \/ LockVault
    \/ SignOut
    \/ SignedOut
    \/ SessionExpires
    \/ \E r \in Slots : ServeGET(r)
    \/ \E r \in Slots : ServePOST(r)
    \/ \E r \in Slots : MPPOSTSave(r)

SpecSession == InitSession /\ [][NextSession]_vars

----------------------------------------------------------------------------
(* The unlocked dashboard: alice has typed her master password, the prompt  *)
(* has verified it and handleMasterPasswordSubmit has set the key up.       *)

\* VaultDashboard.handleMasterPasswordSubmit, the prompt's onSubmit: the
\* prompt calls it with the master password the server accepted.
handleMasterPasswordSubmit(masterPassword) ==
    /\ page = "vault" /\ showPrompt
    /\ setupEncryptionKey(masterPassword, EmailOf(session))
    /\ showPrompt' = (showPrompt /\ ~setupReturns(masterPassword))
    /\ listOut' = (listOut \/ setupReturns(masterPassword))
    /\ UNCHANGED <<dbVars, vaultVars, gateVars, isFirstTime, isValidating, error, page, session,
                   vaultItems, showExportImport, importJob, vaultOp>>

InitDash ==
    /\ InitDB
    /\ items = {} /\ nextId = 1 /\ now = 0 /\ vresp = NoResp
    /\ reqs = [r \in Slots |-> Idle]
    /\ lastSecret = [u \in Owners |-> IF u = "alice" THEN Secret1 ELSE Empty]
    /\ users = [InitUsers EXCEPT !["alice"].masterPasswordHash = bcryptHash(Secret1, 1)]
    /\ encryptionKey = deriveKey(Secret1, EmailOf("alice")) /\ isLocked = FALSE
    /\ showPrompt = FALSE /\ isFirstTime = FALSE /\ isValidating = FALSE
    /\ error = "" /\ page = "vault" /\ session = "alice"
    /\ vaultItems = <<>> /\ listOut = TRUE /\ showExportImport = FALSE
    /\ importJob = NoImport /\ vaultOp = NoOp

NextDash ==
    \/ \E f \in Forms : FormSubmit(f, 0)
    \/ \E k \in 1..MaxItems : FormSubmit(EditForm, k)
    \/ FetchLanded
    \/ \E k \in 1..MaxItems : DecryptCard(k)
    \/ OpenModal
    \/ CloseModal
    \/ Export
    \/ \E file \in WellFormedFiles : ImportStart(file)
    \/ ImportNext
    \/ LockVault
    \/ SignOut
    \/ SignedOut
    \/ handleMasterPasswordSubmit(lastSecret[session])

SpecDash == InitDash /\ [][NextDash]_vars

----------------------------------------------------------------------------
(* Export and import on the unlocked dashboard, with every kind of file.    *)

InitImport == InitDash

NextImport ==
    \/ FormSubmit(Form1, 0)
    \/ FetchLanded
    \/ OpenModal
    \/ CloseModal
    \/ Export
    \/ \E file \in Files : ImportStart(file)
    \/ ImportExported
    \/ ImportNext

SpecImport == InitImport /\ [][NextImport]_vars

----------------------------------------------------------------------------
(* The field cipher applied: calls of encrypt, decrypt, encryptVaultItem and *)
(* decryptVaultItem on inputs drawn from bounded sets, with the store        *)
(* between an encryptVaultItem and a decryptVaultItem. vaultOp keeps the     *)
(* last call: its arguments and what it returned.                            *)

CipherKeys == {deriveKey(s, EmailOf("alice")) : s \in Secrets}
FieldInputs == {Empty, Undefined} \cup Plaintexts
Ciphertexts == {encrypt(s, k, n) : s \in Plaintexts, k \in CipherKeys, n \in Nonces}
CipherItems == {Form1, EditForm, ImportItem}

\* A document whose optional attributes are partly absent.
SparseDoc ==
    [_id |-> 1, userId |-> "alice", title |-> CtA, username |-> Undefined,
     password |-> Null, url |-> Empty, notes |-> Undefined, createdAt |-> 0,
     updatedAt |-> 1]

\* What the decoding gave where it was asked: for the fields that are
\* ciphertexts of another key.
Foreign(ciphertext, key) == IsCiphertext(ciphertext) /\ ciphertext[2] # key
Asked(ciphertext, key, luck) == IF Foreign(ciphertext, key) THEN luck ELSE "none"
AskedOf(item, key, luck) == [f \in AttributeNames |-> Asked(item[f], key, luck[f])]

Call(op, threw, args, result, luck) ==
    Op(op, IF threw THEN "threw" ELSE "returned", <<args, result, luck>>)

cipherRest == <<gateVars, ctxVars, uiVars, vaultItems, listOut, showExportImport, importJob>>

CallEncrypt(plaintext, key, nonce) ==
    /\ vaultOp' = Call("encrypt", FALSE, <<plaintext, key>>, encrypt(plaintext, key, nonce),
                     "none")
    /\ UNCHANGED <<dbVars, vaultVars, cipherRest>>

CallDecrypt(ciphertext, key, luck) ==
    /\ vaultOp' = Call("decrypt", decrypt(ciphertext, key, luck) = DecryptError,
                     <<ciphertext, key>>, decrypt(ciphertext, key, luck),
                     Asked(ciphertext, key, luck))
    /\ UNCHANGED <<dbVars, vaultVars, cipherRest>>

CallEncryptVaultItem(item, key, rnd) ==
    /\ vaultOp' = Call("encryptVaultItem", FALSE, <<item, key>>,
                     encryptVaultItem(item, key, rnd), "none")
    /\ UNCHANGED <<dbVars, vaultVars, cipherRest>>

\* The record encryptVaultItem returned is posted (handleAddItem).
StoreEncrypted ==
    /\ vaultOp.op = "encryptVaultItem"
    /\ CreateItem(PostOf(vaultOp.out[2], TRUE))
    /\ UNCHANGED <<dbVars, now, vaultOp, cipherRest>>

\* The records are fetched (fetchVaultItems).
Retrieve ==
    /\ ListItems([user |-> session, id |-> BadId, body |-> Body0, dbOk |-> TRUE])
    /\ UNCHANGED <<dbVars, items, nextId, now, vaultOp, cipherRest>>

\* decryptVaultItem on a fetched record, or on a document that lacks
\* attributes.
CallDecryptVaultItem(item, key, luck) ==
    /\ vaultOp' = Call("decryptVaultItem", decryptVaultItem(item, key, luck) = DecryptError,
                     <<item, key>>, decryptVaultItem(item, key, luck),
                     AskedOf(item, key, luck))
    /\ UNCHANGED <<dbVars, vaultVars, cipherRest>>

Retrieved == IF vresp.op = "LIST" THEN {vresp.items[i] : i \in 1..Len(vresp.items)} ELSE {}

InitCipher == Init

NextCipher ==
    \/ \E s \in FieldInputs, k \in CipherKeys, n \in Nonces : CallEncrypt(s, k, n)
    \/ \E c \in Ciphertexts \cup {Empty, Undefined}, k \in CipherKeys, luck \in Utf8Outcomes :
          CallDecrypt(c, k, luck)
    \/ \E it \in CipherItems, k \in CipherKeys : CallEncryptVaultItem(it, k, Rnd1)
    \/ StoreEncrypted
    \/ Retrieve
    \/ \E it \in Retrieved \cup {SparseDoc}, k \in CipherKeys, luck \in Lucks :
          CallDecryptVaultItem(it, k, luck)
    \/ Tick

SpecCipher == InitCipher /\ [][NextCipher]_vars

----------------------------------------------------------------------------
(* Claims *)

Others(user, docs) == {it \in docs : it.userId # user}

\* C1 (owner isolation): whatever a vault route does for the session's owner,
\* the documents of every other owner are the same before and after it, every
\* document it returns belongs to that owner, and a GET, PUT or DELETE of
\* /api/vault/:id with the id of another owner's document never succeeds: it
\* answers 404 whenever the request is well formed and the store answers.
C1_OwnerIsolation ==
    [][ /\ Others(vresp'.user, items') = Others(vresp'.user, items)
        /\ \A k \in 1..Len(vresp'.items) : vresp'.items[k].userId = vresp'.user
        /\ \A it \in items :
             (/\ vresp' # vresp
              /\ vresp'.op \in {"GET", "PUT", "DELETE"}
              /\ vresp'.user \in Owners
              /\ it._id = vresp'.id
              /\ it.userId # vresp'.user)
             => /\ vresp'.status \in {400, 404, 500}
                /\ vresp'.items = <<>>
                /\ it \in items'
                /\ (vresp'.dbOk /\ (vresp'.op = "PUT" => vresp'.titleOk))
                       => vresp'.status = 404
      ]_vars

\* A PUT by one owner on the id of another owner's document was answered 404
\* and the document is still stored.
C1_Witness ==
    /\ vresp.op = "PUT" /\ vresp.status = 404
    /\ \E it \in items : it._id = vresp.id /\ it.userId \in Owners \ {vresp.user}

\* A vault route handled a request in this step.
Handled(op) == vresp'.op = op /\ (vresp' # vresp \/ items' # items)

\* The request just answered came from a signed-in owner and the store answered.
Served == vresp'.user \in Owners /\ vresp'.dbOk

IdsOf(docs) == {it._id : it \in docs}
Optional == {"username", "password", "url", "notes"}

\* C14 (create validates the title): for a signed-in owner, a POST /api/vault
\* whose title is empty or missing is answered 400 and stores nothing; any
\* other one, the store answering, is answered 201 and adds exactly one
\* document, owned by the session's owner, with an id no document had before,
\* holding the request's attributes.
C14_CreateValidates ==
    [][ (Handled("POST") /\ vresp'.user \in Owners)
        => /\ (vresp'.body.title \in {Undefined, Empty})
                => /\ vresp'.status = 400 /\ vresp'.items = <<>>
                   /\ items' = items /\ nextId' = nextId
           /\ (vresp'.body.title \notin {Undefined, Empty} /\ vresp'.dbOk)
                => /\ vresp'.status = 201
                   /\ items \subseteq items'
                   /\ Cardinality(items' \ items) = 1
                   /\ \A doc \in items' \ items :
                        /\ doc.userId = vresp'.user
                        /\ doc._id \notin 1..(nextId - 1)
                        /\ doc._id \notin IdsOf(items)
                        /\ doc.title = vresp'.body.title
                        /\ doc.createdAt = now /\ doc.updatedAt = now
                        /\ vresp'.items = <<doc>>
      ]_vars

\* A create with an empty title was refused while the store held a document.
C14_Witness ==
    /\ vresp.op = "POST" /\ vresp.status = 400 /\ vresp.body.title = Empty
    /\ items # {}

\* C15 (list): for a signed-in owner, the store answering, GET /api/vault
\* answers 200 with every document of that owner, each once, none of another
\* owner, newest createdAt first, and writes nothing.
C15_ListExact ==
    [][ (vresp'.op = "LIST" /\ Served)
        => LET out == vresp'.items
               mine == {it \in items' : it.userId = vresp'.user} IN
           /\ vresp'.status = 200
           /\ items' = items
           /\ {out[k] : k \in 1..Len(out)} = mine
           /\ Len(out) = Cardinality(mine)
           /\ \A i, j \in 1..Len(out) : i < j => out[i].createdAt >= out[j].createdAt
      ]_vars

\* A list returned two documents created at different times, the newer first,
\* the older of them updated since.
C15_Witness ==
    /\ vresp.op = "LIST" /\ vresp.status = 200 /\ Len(vresp.items) = 2
    /\ vresp.items[1].createdAt > vresp.items[2].createdAt
    /\ vresp.items[2].updatedAt > vresp.items[2].createdAt

\* C16 (update is a full replace): for a signed-in owner, a well-formed PUT
\* /api/vault/:id, the store answering, that matches a document of the owner
\* is answered 200 and leaves that document with the request's title, each
\* optional attribute as sent or '' when omitted, updatedAt the time of the
\* update, and _id, userId and createdAt as they were; one that matches
\* nothing is answered 404 and stores nothing.
C16_UpdateFullReplace ==
    [][ (Handled("PUT") /\ Served /\ vresp'.titleOk /\ vresp'.id # BadId)
        => LET old == {it \in items : it._id = vresp'.id /\ it.userId = vresp'.user}
               b == vresp'.body IN
           IF old = {}
           THEN vresp'.status = 404 /\ vresp'.items = <<>> /\ items' = items
           ELSE /\ vresp'.status = 200
                /\ Cardinality(old) = 1
                /\ Len(vresp'.items) = 1
                /\ items' = (items \ old) \cup {vresp'.items[1]}
                /\ \A it \in old :
                     LET new == vresp'.items[1] IN
                     /\ new._id = it._id /\ new.userId = it.userId
                     /\ new.createdAt = it.createdAt
                     /\ new.updatedAt = now /\ new.updatedAt >= it.updatedAt
                     /\ new.title = b.title
                     /\ \A f \in Optional :
                          new[f] = IF b[f] \in {Undefined, Empty} THEN Empty ELSE b[f]
      ]_vars

\* An update that omitted the username was stored, at a later time than the
\* document was created, with the username empty.
C16_Witness ==
    /\ vresp.op = "PUT" /\ vresp.status = 200
    /\ vresp.body.username = Undefined
    /\ vresp.items[1].username = Empty
    /\ vresp.items[1].updatedAt > vresp.items[1].createdAt
    /\ vresp.items[1] \in items

\* The id was given to a document and no document has it now.
Gone(id, docs) == id \in 1..(nextId - 1) /\ id \notin IdsOf(docs)

\* C17 (delete): for a signed-in owner, the store answering, DELETE
\* /api/vault/:id removes the one document matching (owner, id) and no other,
\* or answers 404 when none matches; an id whose document is gone never
\* belongs to a document again, whatever requests follow in whatever order,
\* and every later GET, PUT or DELETE of it is answered 404.
C17_DeleteExact ==
    [][ /\ (Handled("DELETE") /\ Served /\ vresp'.id # BadId)
           => LET m == {it \in items : it._id = vresp'.id /\ it.userId = vresp'.user} IN
              IF m = {}
              THEN vresp'.status = 404 /\ items' = items
              ELSE vresp'.status = 200 /\ Cardinality(m) = 1 /\ items' = items \ m
        /\ \A id \in Ids : Gone(id, items) => id \notin IdsOf(items')
        /\ (/\ vresp' # vresp /\ vresp'.op \in {"GET", "PUT", "DELETE"} /\ Served
            /\ (vresp'.op = "PUT" => vresp'.titleOk)
            /\ Gone(vresp'.id, items))
           => vresp'.status = 404 /\ vresp'.items = <<>>
      ]_vars

\* An update of a deleted document's id was answered 404 while another
\* document is still stored.
C17_Witness ==
    /\ vresp.op = "PUT" /\ vresp.status = 404
    /\ Gone(vresp.id, items)
    /\ items # {}

----------------------------------------------------------------------------
(* Claims about the master-password routes (SpecGate) *)

\* Slot r's handler starts on a request in this step (it is not the step
\* after `await bcrypt.hash`).
Begins(r) == reqs'[r] # reqs[r] /\ reqs[r].pc # "save"

\* The request now in slot r is a well-formed one of an owner, the store
\* answering.
WellFormed(r) == reqs'[r].user \in Owners /\ reqs'[r].dbOk

\* Slot r's handler stores a hash in this step.
Saves(r, method) == reqs[r].pc = "save" /\ reqs[r].method = method /\ reqs'[r].pc = "done"

Verifier(u) == users[u].masterPasswordHash

\* C3 (set is first-time only): a 'set' request for an owner who has a
\* verifier is answered 400 'Master password already set' and stores nothing:
\* the verifier is the same afterwards, so it still verifies the original
\* secret and does not verify the rejected one (unless they are the same).
C3_SetFirstTimeOnly ==
    [][ \A r \in Slots :
          (/\ Begins(r) /\ WellFormed(r)
           /\ reqs'[r].method = "POST" /\ reqs'[r].body.action = "set"
           /\ ~Falsy(reqs'[r].body.masterPassword)
           /\ ~Falsy(Verifier(reqs'[r].user)))
          => LET u == reqs'[r].user
                 after == users'[u].masterPasswordHash IN
             /\ reqs'[r].pc = "done"
             /\ reqs'[r].resp.status = 400
             /\ reqs'[r].resp.error = "Master password already set"
             /\ ~reqs'[r].resp.success
             /\ users' = users
             /\ bcryptCompare(lastSecret[u], after)
             /\ reqs'[r].body.masterPassword # lastSecret[u]
                    => ~bcryptCompare(reqs'[r].body.masterPassword, after)
      ]_vars

\* A 'set' with another secret was rejected for an owner who has a verifier.
C3_Witness ==
    \E r \in Slots :
        /\ reqs[r].pc = "done" /\ reqs[r].method = "POST" /\ reqs[r].body.action = "set"
        /\ reqs[r].resp.error = "Master password already set"
        /\ reqs[r].user \in Owners
        /\ ~Falsy(Verifier(reqs[r].user))
        /\ reqs[r].body.masterPassword # lastSecret[reqs[r].user]

\* C4 (verifier immutable under interleaving), as claimed: a stored verifier
\* changes only in the saving step of a PUT (rekey) of its owner.
C4_OnlyRekeyChangesVerifier ==
    [][ \A u \in Owners :
          (~Falsy(Verifier(u)) /\ users'[u].masterPasswordHash # Verifier(u))
          => \E r \in Slots : Saves(r, "PUT") /\ reqs[r].user = u
      ]_vars

\* C13 (a short secret is refused), as claimed: a 'set' request with a master
\* password of fewer than 8 characters, for an owner without verifier, is
\* answered 400 and leaves the verifier absent.
C13_ShortSecretRejected ==
    [][ \A r \in Slots :
          (/\ Begins(r) /\ WellFormed(r)
           /\ reqs'[r].method = "POST" /\ reqs'[r].body.action = "set"
           /\ ~Falsy(reqs'[r].body.masterPassword)
           /\ Len(reqs'[r].body.masterPassword) < 8
           /\ Falsy(Verifier(reqs'[r].user)))
          => /\ reqs'[r].pc = "done"
             /\ reqs'[r].resp.status = 400
             /\ ~reqs'[r].resp.success
             /\ users' = users
      ]_vars

\* C5 (verify): a 'verify' request with a secret, for an owner who has a
\* verifier, is answered 200 with valid = TRUE exactly when the secret is the
\* one last hashed into the verifier, valid = FALSE (no error) otherwise, and
\* changes neither the users nor the items.
C5_VerifyExact ==
    [][ \A r \in Slots :
          (/\ Begins(r) /\ WellFormed(r)
           /\ reqs'[r].method = "POST" /\ reqs'[r].body.action = "verify"
           /\ ~Falsy(reqs'[r].body.masterPassword)
           /\ ~Falsy(Verifier(reqs'[r].user)))
          => /\ reqs'[r].pc = "done"
             /\ reqs'[r].resp.status = 200
             /\ reqs'[r].resp.error = "none"
             /\ reqs'[r].resp.valid
                    = (reqs'[r].body.masterPassword = lastSecret[reqs'[r].user])
             /\ users' = users
             /\ items' = items
      ]_vars

\* One verify answered valid and another, with a different secret, answered
\* not valid with status 200.
C5_Witness ==
    \E r1, r2 \in Slots :
        /\ reqs[r1].pc = "done" /\ reqs[r1].body.action = "verify"
        /\ reqs[r1].resp.status = 200 /\ reqs[r1].resp.valid
        /\ reqs[r2].pc = "done" /\ reqs[r2].body.action = "verify"
        /\ reqs[r2].resp.status = 200 /\ ~reqs[r2].resp.valid
        /\ reqs[r2].user = reqs[r1].user

\* C6 (rekey with a wrong old secret): a PUT whose old secret is not the one in
\* the verifier is answered 401 'Old master password is incorrect' and stores
\* nothing: the verifier still verifies the original secret and does not
\* verify the proposed one (unless they are the same).
C6_WrongOldSecret ==
    [][ \A r \in Slots :
          (/\ Begins(r) /\ WellFormed(r)
           /\ reqs'[r].method = "PUT"
           /\ ~Falsy(reqs'[r].body.oldMasterPassword)
           /\ ~Falsy(reqs'[r].body.newMasterPassword)
           /\ ~Falsy(Verifier(reqs'[r].user))
           /\ reqs'[r].body.oldMasterPassword # lastSecret[reqs'[r].user])
          => LET u == reqs'[r].user
                 after == users'[u].masterPasswordHash IN
             /\ reqs'[r].pc = "done"
             /\ reqs'[r].resp.status = 401
             /\ reqs'[r].resp.error = "Old master password is incorrect"
             /\ users' = users
             /\ bcryptCompare(lastSecret[u], after)
             /\ reqs'[r].body.newMasterPassword # lastSecret[u]
                    => ~bcryptCompare(reqs'[r].body.newMasterPassword, after)
      ]_vars

\* A rekey with a wrong old secret and another new one was rejected.
C6_Witness ==
    \E r \in Slots :
        /\ reqs[r].pc = "done" /\ reqs[r].method = "PUT"
        /\ reqs[r].resp.error = "Old master password is incorrect"
        /\ reqs[r].body.newMasterPassword # lastSecret[reqs[r].user]

\* C7 (rekey leaves the records alone): the step in which a PUT stores the new
\* hash changes the verifier and nothing of the vault items.
C7_RekeyKeepsItems ==
    [][ \A r \in Slots :
          Saves(r, "PUT")
          => /\ items' = items
             /\ reqs'[r].resp.success
             /\ bcryptCompare(reqs[r].body.newMasterPassword,
                              users'[reqs[r].user].masterPasswordHash)
      ]_vars

\* A rekey to another secret succeeded while its owner had items stored.
C7_Witness ==
    \E r \in Slots :
        /\ reqs[r].pc = "done" /\ reqs[r].method = "PUT" /\ reqs[r].resp.success
        /\ reqs[r].body.newMasterPassword # reqs[r].body.oldMasterPassword
        /\ lastSecret[reqs[r].user] = reqs[r].body.newMasterPassword
        /\ \E it \in items : it.userId = reqs[r].user

\* C8 (rekey re-encrypts), as claimed: when a PUT has stored the new hash,
\* every item of its owner decrypts under the key derived from the new
\* master password.
C8_RekeyReEncrypts ==
    [][ \A r \in Slots :
          Saves(r, "PUT")
          => \A it \in items' :
                it.userId = reqs[r].user
                => decryptVaultItem(it, deriveKey(reqs[r].body.newMasterPassword,
                                                  users[reqs[r].user].email), Strict)
                       # DecryptError
      ]_vars

----------------------------------------------------------------------------
(* Claims about the records the browser writes (SpecDash) *)

\* C18: every attribute of every stored record is ciphertext when it is not
\* empty and '' when it is empty, whatever sequence of form saves, edits and
\* imports the browser went through; a record's title is never empty.
C18_StoredIsCiphertext ==
    \A it \in items :
        /\ IsCiphertext(it.title)
        /\ \A f \in Optional : it[f] = Empty \/ IsCiphertext(it[f])

\* A record written by an import (its url is set, its username and password
\* were absent) is stored beside one written by the edit form.
C18_Witness ==
    \E a, b \in items :
        /\ IsCiphertext(a.url) /\ a.url[3] = ImportItem.url
        /\ a.username = Empty /\ a.password = Empty
        /\ IsCiphertext(b.username) /\ b.username[3] = EditForm.username
        /\ b.url = Empty

----------------------------------------------------------------------------
(* Claims about the field cipher (SpecCipher) *)

\* C19: for every key, encrypt('') returns '' and decrypt('') returns '';
\* encryptVaultItem, and decryptVaultItem when it returns, give '' for every
\* optional attribute that is empty or absent in the argument.
C19_EmptyIdentity ==
    /\ (vaultOp.op \in {"encrypt", "decrypt"} /\ vaultOp.out[1][1] = Empty)
          => vaultOp.outcome = "returned" /\ vaultOp.out[2] = Empty
    /\ (vaultOp.op \in {"encryptVaultItem", "decryptVaultItem"}
            /\ vaultOp.outcome = "returned")
          => \A f \in Optional :
                Falsy(vaultOp.out[1][1][f]) => vaultOp.out[2][f] = Empty

\* decryptVaultItem returned for a document that lacks its username.
C19_Witness ==
    /\ vaultOp.op = "decryptVaultItem" /\ vaultOp.outcome = "returned"
    /\ vaultOp.out[1][1].username = Undefined
    /\ vaultOp.out[1][1].url = Empty

C21_WrongKeyRejected ==
    /\ \A s \in Plaintexts, k1, k2 \in CipherKeys, n \in Nonces :
          (k1 # k2 /\ vaultOp.op = "decrypt" /\ vaultOp.out[1] = <<encrypt(s, k1, n), k2>>)
             => vaultOp.outcome = "threw"
    /\ vaultOp.op = "decryptVaultItem"
          => LET item == vaultOp.out[1][1]
                 key == vaultOp.out[1][2]
                 luck == vaultOp.out[3] IN
             (\E f \in AttributeNames :
                  ~Falsy(item[f]) /\ decrypt(item[f], key, luck[f]) = DecryptError)
                => vaultOp.outcome = "threw"

----------------------------------------------------------------------------
(* Claims about export and import (SpecImport) *)

\* The file is the JSON text of an object that carries a (non-empty) version
\* and whose items member is an array.
AcceptableFile(file) ==
    /\ file.json /\ file.data.t = "object"
    /\ Truthy(file.data.version)
    /\ file.data.items.t = "array"

\* C22: with the vault unlocked, handleImport goes past parseImportedVault
\* exactly for the files that are JSON, carry a version and have an array as
\* items; for every other file it shows the error 'Failed to parse vault
\* file: ...', sends nothing and starts no import.
C22_ParseAcceptsIff ==
    [][ \A file \in Files :
          (hasKey /\ ImportStart(file))
             => IF AcceptableFile(file)
                THEN \/ vaultOp'.outcome = "success"
                     \/ vaultOp' = Op("import", "rejected", <<"No items found in import file">>)
                ELSE /\ vaultOp'.outcome = "rejected"
                     /\ vaultOp'.out[1] = "Failed to parse vault file: "
                     /\ items' = items /\ vresp' = vresp /\ importJob' = NoImport
      ]_vars

\* A file was turned down for its format while the vault held a record.
C22_Witness ==
    /\ vaultOp = Op("import", "rejected",
                    <<"Failed to parse vault file: ", "Invalid vault export format">>)
    /\ items # {} /\ importJob = NoImport

\* One turn of an import: the item at the head of rest, under key.
Turn(key, rest) ==
    LET item == Head(rest)
        fresh == items' \ items IN
    /\ items \subseteq items'
    /\ \/ items' = items /\ vresp' = vresp /\ importJob' = NoImport
       \/ /\ vresp'.op = "POST" /\ vresp'.body = encryptVaultItem(item, key, Rnd2)
          /\ importJob'.rest = IF Len(rest) = 1 THEN <<>> ELSE Tail(rest)
          /\ (vresp'.status = 201) = (~Falsy(item.title) /\ vresp'.dbOk)
          /\ IF vresp'.status = 201
             THEN /\ Cardinality(fresh) = 1
                  /\ \A new \in fresh :
                        /\ new._id \notin IdsOf(items) /\ new.userId = session
                        /\ \A f \in AttributeNames :
                              /\ new[f] = Empty \/ (IsCiphertext(new[f]) /\ new[f][2] = key)
                              /\ decryptVaultItem(new, key, Strict)[f] = OrEmpty(item[f])
             ELSE items' = items

\* C23: an import sends every item of the bundle in turn, under the key the
\* session held when the import began; each item the server accepts becomes
\* exactly one new record with a fresh id whose attributes decrypt to the
\* item's, also when the item carries the id of a record of the vault; no
\* record that was there is changed or removed.
C23_ImportAppends ==
    [][ /\ ImportNext => Turn(importJob.key, importJob.rest)
        /\ \A file \in Files :
              (hasKey /\ parseImportedVault(file).ok /\ parseImportedVault(file).items # <<>>
                  /\ ImportStart(file))
                 => Turn(encryptionKey, parseImportedVault(file).items)
        /\ (hasKey /\ vaultOp.op = "export" /\ vaultOp.out # <<>> /\ ImportExported)
              => Turn(encryptionKey, vaultOp.out)
      ]_vars

\* The export of the vault was imported again: the record of the form is
\* there twice, under two ids.
C23_Witness ==
    /\ importJob = NoImport /\ vaultOp.outcome = "success"
    /\ \E a, b \in items :
          /\ a._id # b._id
          /\ a.title = encrypt(Form1.title, encryptionKey, Rnd1.title)
          /\ b.title = encrypt(Form1.title, encryptionKey, Rnd2.title)
          /\ b.password = encrypt(Form1.password, encryptionKey, Rnd2.password)

\* C24: an import is best effort per item and reports its failures: a turn
\* whose item was not stored does not end the batch while items remain, and
\* what the owner is shown afterwards is not the announcement of success.
C24_FailuresReported ==
    [][ /\ \A file \in Files :
              (hasKey /\ parseImportedVault(file).ok /\ parseImportedVault(file).items # <<>>
                  /\ ImportStart(file) /\ items' = items)
                 => /\ vaultOp'.outcome # "success"
                    /\ importJob'.rest = Tail(parseImportedVault(file).items)
        /\ (ImportNext /\ items' = items)
              => /\ vaultOp'.outcome # "success"
                 /\ importJob'.rest = Tail(importJob.rest)
      ]_vars

----------------------------------------------------------------------------
(* Requests without a session, to every route (SpecAnon) *)

\* alice sets her verifier and fills her vault; beside her, requests for which
\* auth() returns no session reach the eight handlers with any id and body,
\* the store answering or not.
AnonVaultInputs ==
    [user : {NoSession}, id : {1, BadId}, body : {Body0, [Body0 EXCEPT !.title = Undefined]},
     dbOk : BOOLEAN]
AnonBodies(method) ==
    IF method = "GET" THEN {NoMPBody}
    ELSE IF method = "POST" THEN MPBodies({Secret1}, {"set"}, {Undefined}, {Undefined})
    ELSE MPBodies({Undefined}, {NoAction}, {Secret1}, {Secret2})
AnonInputs(method) ==
    [method : {method}, user : {NoSession}, body : AnonBodies(method), dbOk : BOOLEAN]
AnonSlot == NumSlots

OwnerSets ==
    /\ Fresh(1)
    /\ \E q \in {q \in PostInputs : q.user = "alice" /\ q.dbOk /\ q.body.action = "set"
                                       /\ q.body.masterPassword = Secret1} : MPPOST(1, q)

InitAnon == Init

NextAnon ==
    \/ OwnerSets
    \/ MPPOSTSave(1)
    \/ UnlockedAddItem("alice", Secret1)
    \/ \E q \in AnonVaultInputs : VaultList(q)
    \/ \E q \in AnonVaultInputs : VaultPOST(q)
    \/ \E q \in AnonVaultInputs : VaultGET(q)
    \/ \E q \in AnonVaultInputs : VaultPUT(q)
    \/ \E q \in AnonVaultInputs : VaultDELETE(q)
    \/ \E q \in AnonInputs("GET") : MPGET(AnonSlot, q)
    \/ \E q \in AnonInputs("POST") : MPPOST(AnonSlot, q)
    \/ \E q \in AnonInputs("PUT") : MPPUT(AnonSlot, q)

SpecAnon == InitAnon /\ [][NextAnon]_vars

\* C25: a request without a session user is answered 401 'Unauthorized' by
\* each of the five vault handlers and the three master-password handlers at
\* once, whatever its id and body and whether or not the store would answer;
\* no record and no verifier is changed and the answer carries no record.
C25_NoSessionUnauthorized ==
    [][ /\ \A q \in AnonVaultInputs :
              (VaultList(q) \/ VaultPOST(q) \/ VaultGET(q) \/ VaultPUT(q) \/ VaultDELETE(q))
                 => /\ vresp'.status = 401 /\ vresp'.items = <<>>
                    /\ items' = items /\ users' = users
        /\ \A m \in {"GET", "POST", "PUT"} : \A q \in AnonInputs(m) :
              (MPGET(AnonSlot, q) \/ MPPOST(AnonSlot, q) \/ MPPUT(AnonSlot, q))
                 => /\ reqs'[AnonSlot].pc = "done"
                    /\ reqs'[AnonSlot].resp = Answer(401, "Unauthorized")
                    /\ items' = items /\ users' = users
      ]_vars

\* With a verifier and a record stored, a DELETE of that record's id and a
\* change of master password came without a session and were answered 401.
C25_Witness ==
    /\ ~Falsy(users["alice"].masterPasswordHash)
    /\ vresp.op = "DELETE" /\ vresp.user = NoSession /\ vresp.status = 401
    /\ \E it \in items : it._id = vresp.id
    /\ reqs[AnonSlot].user = NoSession /\ reqs[AnonSlot].method = "PUT"
    /\ ~reqs[AnonSlot].dbOk /\ reqs[AnonSlot].resp.status = 401

----------------------------------------------------------------------------
(* Password generator: src/lib/password-generator.ts (SpecGen) *)

UPPERCASE ==
    <<"A", "B", "C", "D", "E", "F", "G", "H", "I", "J", "K", "L", "M",
      "N", "O", "P", "Q", "R", "S", "T", "U", "V", "W", "X", "Y", "Z">>
LOWERCASE ==
    <<"a", "b", "c", "d", "e", "f", "g", "h", "i", "j", "k", "l", "m",
      "n", "o", "p", "q", "r", "s", "t", "u", "v", "w", "x", "y", "z">>
NUMBERS ==
    <<"0", "1", "2", "3", "4", "5", "6", "7", "8", "9">>
SYMBOLS ==
    <<"!", "@", "#", "$", "%", "^", "&", "*", "(", ")", "_", "+", "-",
      "=", "[", "]", "{", "}", "|", ";", ":", ",", ".", "<", ">", "?",
      "~">>
SIMILAR_CHARS == {"0", "O", "l", "1", "I"}

\* str.replace(SIMILAR_CHARS, '')
WithoutSimilar(str) == SelectSeq(str, LAMBDA c : c \notin SIMILAR_CHARS)

\* The values crypto.getRandomValues is taken to deliver.
RandomValues == {0, 57}

\* getRandomChar(str), random being the value it draws
getRandomChar(str, random) == str[(random % Len(str)) + 1]

\* An element of an array that is undefined; join('') writes nothing for it.
NoChar == "undefined"
Join(arr) == SelectSeq(arr, LAMBDA c : c # NoChar)

\* The loop of shuffleString from index i down to 1 (indices from 0 as in the
\* source). A Uint32Array read past its end is undefined, so j is NaN:
\* arr[NaN] reads and writes the property 'NaN' of the array, held in nan.
RECURSIVE ShuffleFrom(_, _, _, _)
ShuffleFrom(arr, nan, i, randomValues) ==
    IF i < 1 THEN arr
    ELSE IF i + 1 > Len(randomValues)
    THEN ShuffleFrom([arr EXCEPT ![i + 1] = nan], arr[i + 1], i - 1, randomValues)
    ELSE LET j == randomValues[i + 1] % (i + 1) IN
         ShuffleFrom([arr EXCEPT ![i + 1] = arr[j + 1], ![j + 1] = arr[i + 1]],
                     nan, i - 1, randomValues)

shuffleString(str, randomValues) ==
    Join(ShuffleFrom(str, NoChar, Len(str) - 1, randomValues))

TypeNames == <<"includeUppercase", "includeLowercase", "includeNumbers", "includeSymbols">>
TypeChars == <<UPPERCASE, LOWERCASE, NUMBERS, SYMBOLS>>

\* The characters generatePassword takes for type t (1..4).
CharsOf(t, excludeSimilar) ==
    IF excludeSimilar /\ t # 4 THEN WithoutSimilar(TypeChars[t]) ELSE TypeChars[t]

Selected(options) == SelectSeq(<<1, 2, 3, 4>>, LAMBDA t : options[TypeNames[t]])

RECURSIVE Charset(_, _)
Charset(types, excludeSimilar) ==
    IF types = <<>> THEN <<>>
    ELSE CharsOf(Head(types), excludeSimilar) \o Charset(Tail(types), excludeSimilar)

NoPassword == [threw |-> TRUE, password |-> <<>>]

\* generatePassword(options): randomValues is the Uint32Array of
\* options.length values, picks[t] the value getRandomChar draws for type t.
generatePassword(options, randomValues, picks) ==
    LET types == Selected(options)
        charset == Charset(types, options.excludeSimilar)
        requiredChars == [k \in 1..Len(types) |->
                            getRandomChar(CharsOf(types[k], options.excludeSimilar),
                                          picks[types[k]])]
        free == options.length - Len(requiredChars)
    IN  IF types = <<>> THEN NoPassword
        ELSE IF options.length < Len(requiredChars) THEN NoPassword
        ELSE LET password ==
                     [i \in 1..free |-> charset[(randomValues[i] % Len(charset)) + 1]]
                        \o requiredChars
             IN [threw |-> FALSE,
                 password |-> shuffleString(password,
                                            SubSeq(randomValues, free + 1, options.length))]

validateOptions(options) ==
    /\ ~(options.length < 4) /\ ~(options.length > 128)
    /\ \E t \in 1..4 : options[TypeNames[t]]

MaxLength == 5      \* longest password asked for
Options ==
    [length : 3..MaxLength, includeUppercase : BOOLEAN, includeLowercase : BOOLEAN,
     includeNumbers : BOOLEAN, includeSymbols : BOOLEAN, excludeSimilar : BOOLEAN]

\* PasswordGenerator: the owner changes the options.
SetOptions(options) ==
    /\ vaultOp' = Op("options", "none", <<options>>)
    /\ UNCHANGED <<dbVars, vaultVars, gateVars, ctxVars, uiVars, vaultItems, listOut,
                   showExportImport, importJob>>

\* PasswordGenerator.handleGenerate with the options chosen last.
handleGenerate ==
    /\ vaultOp.op \in {"options", "generate"}
    /\ LET options == vaultOp.out[1] IN
       IF ~validateOptions(options)
       THEN vaultOp' = Op("generate", "invalid", <<options, <<>>>>)
       ELSE \E randomValues \in [1..options.length -> RandomValues],
               picks \in [1..4 -> RandomValues] :
               LET generated == generatePassword(options, randomValues, picks) IN
               vaultOp' = Op("generate", IF generated.threw THEN "threw" ELSE "success",
                             <<options, generated.password>>)
    /\ UNCHANGED <<dbVars, vaultVars, gateVars, ctxVars, uiVars, vaultItems, listOut,
                   showExportImport, importJob>>

InitGen == Init

NextGen ==
    \/ \E options \in Options : SetOptions(options)
    \/ handleGenerate

SpecGen == InitGen /\ [][NextGen]_vars

Generated == vaultOp.op = "generate" /\ vaultOp.outcome = "success"

\* C26: a generated password has exactly options.length characters, each from
\* the sets of the selected types (without 0, O, l, 1, I under excludeSimilar).
C26_LengthAndAlphabet ==
    Generated =>
        LET options == vaultOp.out[1]
            password == vaultOp.out[2] IN
        /\ Len(password) = options.length
        /\ \A i \in 1..Len(password) :
              \E t \in 1..4 :
                 /\ options[TypeNames[t]]
                 /\ \E k \in 1..Len(TypeChars[t]) : password[i] = TypeChars[t][k]
                 /\ options.excludeSimilar => password[i] \notin SIMILAR_CHARS

\* C27: a generated password holds at least one character of each selected
\* type.
C27_EachTypePresent ==
    Generated =>
        LET options == vaultOp.out[1]
            password == vaultOp.out[2] IN
        \A t \in 1..4 :
           options[TypeNames[t]] =>
              \E i \in 1..Len(password) :
                 \E k \in 1..Len(TypeChars[t]) : password[i] = TypeChars[t][k]

----------------------------------------------------------------------------
(* validateMasterPassword on its own (SpecStrength) *)

MaxPassword == 16   \* longest master password validated

\* The password of n characters that cycles through the characters of mix.
Cycled(n, mix) == [i \in 1..n |-> mix[((i - 1) % Len(mix)) + 1]]
Mixes ==
    {mix \in UNION {[1..k -> {"a", "A", "1", "!"}] : k \in 1..4} :
        \A i, j \in 1..Len(mix) : i # j => mix[i] # mix[j]}
Passwords == {Cycled(n, mix) : n \in 0..MaxPassword, mix \in Mixes}

CallValidate(password) ==
    /\ vaultOp' = Op("validate", "success", <<password, validateMasterPassword(password)>>)
    /\ UNCHANGED <<dbVars, vaultVars, gateVars, ctxVars, uiVars, vaultItems, listOut,
                   showExportImport, importJob>>

InitStrength == Init
NextStrength == \E password \in Passwords : CallValidate(password)
SpecStrength == InitStrength /\ [][NextStrength]_vars

\* The conditions of the claim that password meets.
Met(password) ==
    {c \in {"twelve", "sixteen", "cases", "digit", "other"} :
        \/ c = "twelve" /\ Len(password) >= 12
        \/ c = "sixteen" /\ Len(password) >= 16
        \/ c = "cases" /\ (\E i \in DOMAIN password : password[i] \in Lower)
                       /\ (\E i \in DOMAIN password : password[i] \in Upper)
        \/ c = "digit" /\ (\E i \in DOMAIN password : password[i] \in Digit)
        \/ c = "other" /\ (\E i \in DOMAIN password :
                               password[i] \notin Lower \cup Upper \cup Digit)}

\* C28: a password is invalid exactly when it is shorter than 8 characters;
\* one of 8 or more is weak with at most one condition met, medium with two,
\* strong with three or four, very-strong with all five; a message comes
\* exactly with an invalid or a weak password.
C28_StrengthTable ==
    vaultOp.op = "validate" =>
        LET password == vaultOp.out[1]
            result == vaultOp.out[2]
            met == Cardinality(Met(password)) IN
        /\ result.isValid = (Len(password) >= 8)
        /\ result.isValid =>
              result.strength = CASE met <= 1 -> "weak"
                                  [] met = 2 -> "medium"
                                  [] met \in {3, 4} -> "strong"
                                  [] met = 5 -> "very-strong"
        /\ result.message = (~result.isValid \/ result.strength = "weak")

\* A password of 16 characters was validated and found medium, without a
\* message.
C28_Witness ==
    /\ vaultOp.op = "validate"
    /\ Len(vaultOp.out[1]) = 16 /\ vaultOp.out[2].strength = "medium"
    /\ ~vaultOp.out[2].message

----------------------------------------------------------------------------
(* lib/mongodb: connectDB under concurrent calls (SpecDB) *)

\* Faulty variant: the handler of a failed attempt leaves the promise cached.
CatchKeeps(cache) == cache

\* catch (e) { cached.promise = null; throw e }
Catch(cache) == [cache EXCEPT !.promise = NoPromise]

Pending == {a \in DOMAIN loop.attempts : loop.attempts[a] = "pending"}

\* connectDB() called by handler c, up to its return from the cache or to
\* `await cached.promise`. A call begins in a job of its own, when the jobs
\* queued by a settled promise have run.
connectDB(c) ==
    /\ loop.calls[c].pc # "await"
    /\ loop.microtasks = <<>>
    /\ IF cached.conn # NoConn
       THEN /\ loop' = [loop EXCEPT !.calls[c] =
                           [pc |-> "returned", promise |-> NoPromise, conn |-> cached.conn]]
            /\ UNCHANGED cached
       ELSE LET starts == cached.promise = NoPromise
                promise == IF starts THEN Len(loop.attempts) + 1 ELSE cached.promise
                attempts == IF starts THEN Append(loop.attempts, "pending")
                            ELSE loop.attempts
            IN  /\ starts => Len(loop.attempts) < MaxAttempts
                /\ cached' = [cached EXCEPT !.promise = promise]
                /\ loop' = [loop EXCEPT
                              !.attempts = attempts,
                              !.awaiting = IF attempts[promise] = "pending"
                                           THEN Append(@, c) ELSE @,
                              !.microtasks = IF attempts[promise] = "pending"
                                             THEN @ ELSE Append(@, c),
                              !.calls[c] = [pc |-> "await", promise |-> promise,
                                            conn |-> NoConn]]
    /\ UNCHANGED appVars

\* The promise of attempt a settles: the continuations of the calls awaiting
\* it are queued as jobs, in the order the calls began to wait.
Settle(a, outcome) ==
    /\ a \in Pending
    /\ loop.microtasks = <<>>
    /\ loop' = [loop EXCEPT
                  !.attempts[a] = outcome,
                  !.microtasks = SelectSeq(loop.awaiting,
                                           LAMBDA c : loop.calls[c].promise = a),
                  !.awaiting = SelectSeq(loop.awaiting,
                                         LAMBDA c : loop.calls[c].promise # a)]
    /\ UNCHANGED <<appVars, cached>>

\* The first queued job runs: connectDB goes on after its await.
Resume ==
    /\ loop.microtasks # <<>>
    /\ LET c == Head(loop.microtasks)
           a == loop.calls[c].promise
       IN  IF loop.attempts[a] = "resolved"
           THEN /\ cached' = [cached EXCEPT !.conn = a]
                /\ loop' = [loop EXCEPT
                              !.microtasks = Tail(@),
                              !.calls[c] = [pc |-> "returned", promise |-> NoPromise,
                                            conn |-> a]]
           ELSE /\ cached' = Catch(cached)
                /\ loop' = [loop EXCEPT
                              !.microtasks = Tail(@),
                              !.calls[c] = [pc |-> "threw", promise |-> NoPromise,
                                            conn |-> NoConn]]
    /\ UNCHANGED appVars

InitConnect == Init

NextConnect ==
    \/ \E c \in DbCallers : connectDB(c)
    \/ \E a \in 1..MaxAttempts, outcome \in {"resolved", "rejected"} : Settle(a, outcome)
    \/ Resume

SpecDB == InitConnect /\ [][NextConnect]_vars

\* C29: at most one attempt is pending at a time; every call that returned
\* holds the cached connection; the handler of a failed attempt clears the
\* promise, so that a call made when no connection is cached and no attempt
\* is pending starts a new attempt; and the promise of a pending attempt is
\* never taken out of the cache.
C29_OneAttemptOneConnection ==
    [][ /\ Cardinality({a \in DOMAIN loop'.attempts : loop'.attempts[a] = "pending"}) <= 1
        /\ \A c \in DbCallers :
              loop'.calls[c].pc = "returned"
                 => loop'.calls[c].conn # NoConn /\ loop'.calls[c].conn = cached'.conn
        /\ \A c \in DbCallers :
              (loop.calls[c].pc = "await" /\ loop'.calls[c].pc = "threw")
                 => cached'.promise = NoPromise
        /\ \A c \in DbCallers :
              (connectDB(c) /\ cached.conn = NoConn /\ Pending = {})
                 => Len(loop'.attempts) = Len(loop.attempts) + 1
        /\ cached.promise \in Pending => cached'.promise = cached.promise
      ]_vars

\* After an attempt that failed a second one succeeded, and two calls hold
\* its connection while a third has thrown.
C29_Witness ==
    /\ Len(loop.attempts) = 2
    /\ loop.attempts[1] = "rejected" /\ loop.attempts[2] = "resolved"
    /\ \E c, d, e \in DbCallers :
          /\ c # d
          /\ loop.calls[c].pc = "returned" /\ loop.calls[d].pc = "returned"
          /\ loop.calls[c].conn = 2 /\ loop.calls[d].conn = 2
          /\ loop.calls[e].pc = "threw"

----------------------------------------------------------------------------
(* Claims about the browser session (SpecSession) *)

\* C2 (the master password is never sent to the server), as claimed: no
\* request the browser sends to /api/master-password carries a master
\* password the user typed.
C2_MasterPasswordNeverSent ==
    \A r \in Slots :
        /\ reqs[r].body.masterPassword \notin Typed
        /\ reqs[r].body.oldMasterPassword \notin Typed
        /\ reqs[r].body.newMasterPassword \notin Typed

\* C11 (lock and sign-out; nothing is sent while locked), as claimed:
\* handleLockVault and handleSignOut leave the provider without key and
\* locked, and in no step taken while the provider is locked does an
\* operation that asks for the key do anything but refuse, nor does the
\* server receive a record: the store is unchanged and the only vault request
\* handled is the list of fetchVaultItems (a form with a blank title is turned
\* down before the key is asked for).
C11_LockedSendsNothing ==
    [][ /\ ((hasKey /\ ~showPrompt /\ showPrompt') \/ (page = "vault" /\ page' = "signing-out"))
            => encryptionKey' = Null /\ isLocked'
        /\ isLocked
            => /\ items' = items
               /\ vresp' # vresp => vresp'.op = "LIST"
               /\ vaultOp' # vaultOp => vaultOp'.outcome \in {"refused", "invalid"}
      ]_vars

\* C12 (a weak secret is flagged, not blocked), as claimed: whenever the
\* prompt flags the submitted master password as weak, the submit went out to
\* the server all the same.
C12_WeakOnlyFlagged ==
    [][ (error' = "Consider using a stronger master password" /\ error' # error)
        => reqs'[SubmitSlot].pc = "sent"
      ]_vars

\* C9 (key iff unlocked): the provider holds a key exactly when it is not
\* locked.
C9_KeyIffUnlocked == hasKey <=> ~isLocked

\* The vault was unlocked (the list it then fetches is still under way) and
\* handleSignOut cleared the key again.
C9_Witness ==
    /\ page = "signing-out" /\ ~hasKey /\ isLocked
    /\ listOut

\* C10 (unlock only after the server accepted the secret): the provider goes
\* from locked to unlocked only in the step that handles the answer to the
\* prompt's own request, for an owner, when that answer is the success of a
\* 'set' or valid = true of a 'verify'; the key it then holds is derived from
\* the submitted secret.
C10_UnlockOnlyAfterAccept ==
    [][ (isLocked /\ ~isLocked')
        => LET q == reqs[SubmitSlot] IN
           /\ q.pc = "done" /\ reqs'[SubmitSlot].pc = "idle"
           /\ q.user \in Owners
           /\ \/ q.body.action = "set" /\ q.resp.status = 200 /\ q.resp.success
              \/ q.body.action = "verify" /\ q.resp.status = 200 /\ q.resp.valid
           /\ encryptionKey' = deriveKey(q.body.masterPassword, users[q.user].email)
      ]_vars

\* The vault is unlocked with the key of the secret that a first-time 'set'
\* of this session stored.
C10_Witness ==
    /\ ~isLocked /\ isFirstTime
    /\ encryptionKey = deriveKey(Secret2, EmailOf("alice"))
    /\ lastSecret["alice"] = Secret2

\* C30: whenever the prompt sends the master password, the request is a 'set'
\* if the owner has no verifier and a 'verify' if the owner has one, whether
\* or not the check of hasMasterPassword has been answered.
C30_BranchFollowsVerifier ==
    [][ \A p \in Typed :
          (HandleSubmit(p) /\ isValidating' /\ session \in DOMAIN users)
             => reqs'[SubmitSlot].body.action =
                    IF Falsy(users[session].masterPasswordHash) THEN "set" ELSE "verify"
      ]_vars

============================================================================
